---- MODULE Spec2Model ----
(***************************************************************************)
(* A model of claude-relay's session engine: ClaudeProcess (src/src/        *)
(* process.rs) with its conversation history, checkpoint stack and redo    *)
(* buffer, the chat_completions handler (src/src/server.rs) that drives    *)
(* one ClaudeProcess behind the registry lock, and the capture of the      *)
(* login URL from a setup-token child on a pty (src/src/auth.rs).          *)
(***************************************************************************)
EXTENDS Integers, Sequences, FiniteSets, TLC

(***************************************************************************)
(* Bounds of the model.                                                    *)
(***************************************************************************)
\* Spec and SpecBridge: send calls, and save_state / undo / undo_to_index /
\* restore calls, in one behaviour
MaxSends == 2
MaxCalls == 3
\* SpecWindow: the same counts for a caller that keeps to one send method,
\* and the failed sends whose entries the log may hold at once
WindowSends == 12
WindowCalls == 1
WindowFailures == 1
\* SpecRedo: exchanges, and undo_to_index / restore calls, in one behaviour
RedoSends == 3
RedoCalls == 2
\* SpecServer: chat-completion requests in one behaviour
MaxRequests == 3
\* SpecChat: chat-completion requests whose bodies and replies are texts
HandledRequests == 1
\* SpecPipe: the bytes a pipe buffers before a write to it blocks, and the
\* largest prompt and the largest output of one round trip, in bytes
PipeCapacity == 2
MaxPrompt == 4
MaxOutput == 4
\* SpecText: the longest text handed to a text function, in characters
MaxText == 4
\* SpecWait: the longest timeout wait_for_auth is called with, in steps of
\* the clock
MaxTimeoutSteps == 4

(***************************************************************************)
(* Program constants.                                                      *)
(***************************************************************************)
\* process.rs:132   if self.conversation_history.len() > 20
MaxHistoryEntries == 20
\* process.rs:133   self.conversation_history.drain(0..2)
DrainEntries == 2
\* process.rs:199   if self.conversation_states.len() > 10
MaxStates == 10
\* auth.rs:139   for _ in 0..100
PollIterations == 100
\* auth.rs:140   std::thread::sleep(Duration::from_millis(100))
PollIntervalMs == 100
\* auth.rs:223   tokio::time::interval(Duration::from_millis(500))
WaitIntervalMs == 500

VARIABLES
    conversation_history,   \* ClaudeProcess.conversation_history : Vec<String>
    conversation_states,    \* ClaudeProcess.conversation_states : Vec<ConversationState>
    last_undone_history,    \* ClaudeProcess.last_undone_history : Option<Vec<String>>
    pc,                     \* "idle", or "in_flight" inside send_message (after the push at
                            \* line 67, before the subprocess result is known)
    cur_call,               \* the latest send call, in flight or returned: [op, message,
                            \* full_prompt (while in flight), spawns, all_succeeded]
    pre,                    \* the session as it was when the last call was entered
    last_call,              \* the last call that returned: [op, message, index, result, after]
    sends,                  \* number of send calls made so far; names the next message
    calls,                  \* number of checkpoint-API calls made so far
    processes,              \* AppState.processes : the keys of the registry map
    lock_holder,            \* the request holding the write guard of AppState.processes, or 0
    lock_queue,             \* the requests suspended in processes.write().await, in order
    requests,               \* where each chat_completions call stands
    status,                 \* the HTTP status each request was answered with, or 0
    running_at_arrival,     \* for each request, the requests inside the handler when it arrived
    arrived,                \* the requests in the order they entered processes.write().await
    aborted,                \* the requests whose caller closed the connection before the answer
    request_json,           \* Json(request): the body of each request, once the handler reads it
    response_json,          \* Json(response): the body each request was answered with, if any
    capture_pc,             \* where capture_setup_token_output stands
    polls,                  \* iterations of the poll loop begun
    stream,                 \* what the setup-token child prints, as the chunks it writes
    written,                \* chunks the child has written to the pty
    consumed,               \* chunks reader.read has returned
    pty_child,              \* the setup-token child: "none", "running", "exited", "killed"
    reader_blocks,          \* whether reader.read waits when the pty holds nothing
    captured,               \* what capture_setup_token_output returned: Option<String>
    main_pc,                \* where main stands
    mode,                   \* what main was asked to run
    claude_json,            \* <claude_home>/.claude.json: Option<text>
    auth_json,              \* <claude_home>/.config/claude/auth.json: Option<text>
    observed,               \* what main has seen: the result of check_authentication and
                            \* of complete_oauth_flow, each None until it returned
    pipe,                   \* one subprocess round trip of send_message at the level of the
                            \* two pipes: the bytes written, buffered and read at each end
    auth_wait,              \* one call of wait_for_auth: its timeout, the time since it
                            \* started, the polls it made and what it returned
    text_call               \* the last call of strip_ansi_codes or complete_auth: its
                            \* argument, where it stands, the formats it has written
                            \* and what it returned

processVars == <<conversation_history, conversation_states, last_undone_history,
                 pc, cur_call, pre, last_call>>
budgetVars == <<sends, calls>>
serverVars ==
    <<processes, lock_holder, lock_queue, requests, status, running_at_arrival, arrived,
      aborted, request_json, response_json>>
captureVars ==
    <<capture_pc, polls, stream, written, consumed, pty_child, reader_blocks, captured>>
mainVars == <<main_pc, mode, claude_json, auth_json, observed>>
ioVars == <<pipe, auth_wait, text_call>>
vars == <<processVars, budgetVars, serverVars, captureVars, mainVars, ioVars>>

(***************************************************************************)
(* Values.                                                                 *)
(***************************************************************************)
\* Option<T>: None is the empty sequence, Some(x) the one-element sequence.
None == <<>>
Some(x) == <<x>>

\* format!("User: {}", message) and format!("Claude: {}", response): the
\* prefix and the text it is put in front of.
UserEntry(message) == [prefix |-> "User: ", text |-> message]
ClaudeEntry(response) == [prefix |-> "Claude: ", text |-> response]

\* Result<T>: kind is "Ok", the error variant ("Process", "Authentication"),
\* or "Panic" for an unwinding panic; value is the Ok payload as a sequence,
\* text what format! puts after an error's message.
Ok(value) == [kind |-> "Ok", detail |-> "", value |-> value, text |-> <<>>]
Err(kind, detail) == [kind |-> kind, detail |-> detail, value |-> <<>>, text |-> <<>>]
ErrWith(kind, detail, text) ==
    [kind |-> kind, detail |-> detail, value |-> <<>>, text |-> text]
Panic(detail) == [kind |-> "Panic", detail |-> detail, value |-> <<>>, text |-> <<>>]

\* A usize argument, written hi * 2^(w-1) + lo with hi its top bit and lo
\* small: message_index * 2 overflows the word exactly when hi = 1, and the
\* wrapped product is then lo * 2.
Usize(hi, lo) == [hi |-> hi, lo |-> lo]
MulOverflows(message_index) == message_index.hi = 1
WrappingDouble(message_index) == message_index.lo * 2

\* The ClaudeProcess fields as one value.
Self ==
    [conversation_history |-> conversation_history,
     conversation_states |-> conversation_states,
     last_undone_history |-> last_undone_history]

Front(s) == SubSeq(s, 1, Len(s) - 1)
Last(s) == s[Len(s)]
DropFirst(s, n) == SubSeq(s, n + 1, Len(s))

(***************************************************************************)
(* ClaudeProcess methods, as functions of the fields.                      *)
(***************************************************************************)
\* ConversationState.timestamp is written at process.rs:193 and never read;
\* a checkpoint is modelled by its history.
\* save_state evicting the checkpoint it has just pushed instead of the
\* oldest one.
save_state_newest_evicted(self) ==
    LET pushed == Append(self.conversation_states, self.conversation_history)
    IN  [self EXCEPT !.conversation_states =
            IF Len(pushed) > MaxStates THEN Front(pushed) ELSE pushed]

save_state(self) ==
    LET pushed == Append(self.conversation_states, self.conversation_history)
    IN  [self EXCEPT !.conversation_states =
            IF Len(pushed) > MaxStates THEN Tail(pushed) ELSE pushed]

\* undo_last_exchange taking the oldest checkpoint instead of the newest.
undo_last_exchange_oldest(self) ==
    IF self.conversation_states = <<>>
    THEN [self |-> self, result |-> Err("Process", "No conversation states to undo")]
    ELSE [self |-> [self EXCEPT
                        !.conversation_history = Head(self.conversation_states),
                        !.conversation_states = Tail(self.conversation_states)],
          result |-> Ok(<<>>)]

\* undo_last_exchange saving the log it replaces into the redo buffer, as
\* undo_to_index does.
undo_last_exchange_filling(self) ==
    IF self.conversation_states = <<>>
    THEN [self |-> self, result |-> Err("Process", "No conversation states to undo")]
    ELSE [self |-> [self EXCEPT
                        !.conversation_history = Last(self.conversation_states),
                        !.conversation_states = Front(self.conversation_states),
                        !.last_undone_history = Some(self.conversation_history)],
          result |-> Ok(<<>>)]

undo_last_exchange(self) ==
    IF self.conversation_states = <<>>
    THEN [self |-> self, result |-> Err("Process", "No conversation states to undo")]
    ELSE [self |-> [self EXCEPT
                        !.conversation_history = Last(self.conversation_states),
                        !.conversation_states = Front(self.conversation_states)],
          result |-> Ok(<<>>)]

\* undo_to_index filling the redo buffer after the truncation instead of
\* before it.
undo_to_index_saving_late(self, message_index, overflow_checks) ==
    IF MulOverflows(message_index) /\ overflow_checks
    THEN [self |-> self, result |-> Panic("attempt to multiply with overflow")]
    ELSE
    LET history_index == WrappingDouble(message_index)
        history == self.conversation_history
    IN  IF history_index > Len(history)
        THEN [self |-> self, result |-> Err("Process", "Invalid undo index")]
        ELSE [self |->
                [conversation_history |-> SubSeq(history, 1, history_index),
                 conversation_states |->
                    SelectSeq(self.conversation_states,
                              LAMBDA state : Len(state) <= history_index),
                 last_undone_history |->
                    IF history_index < Len(history)
                    THEN Some(SubSeq(history, 1, history_index))
                    ELSE self.last_undone_history],
              result |-> Ok(<<>>)]

\* undo_to_index retaining only the checkpoints strictly shorter than the
\* new log.
undo_to_index_strict_retain(self, message_index, overflow_checks) ==
    IF MulOverflows(message_index) /\ overflow_checks
    THEN [self |-> self, result |-> Panic("attempt to multiply with overflow")]
    ELSE
    LET history_index == WrappingDouble(message_index)
        history == self.conversation_history
    IN  IF history_index > Len(history)
        THEN [self |-> self, result |-> Err("Process", "Invalid undo index")]
        ELSE [self |->
                [conversation_history |-> SubSeq(history, 1, history_index),
                 conversation_states |->
                    SelectSeq(self.conversation_states,
                              LAMBDA state : Len(state) < history_index),
                 last_undone_history |->
                    IF history_index < Len(history)
                    THEN Some(history)
                    ELSE self.last_undone_history],
              result |-> Ok(<<>>)]

\* undo_to_index filling the redo buffer whether or not it cuts anything.
undo_to_index_always_saving(self, message_index, overflow_checks) ==
    IF MulOverflows(message_index) /\ overflow_checks
    THEN [self |-> self, result |-> Panic("attempt to multiply with overflow")]
    ELSE
    LET history_index == WrappingDouble(message_index)
        history == self.conversation_history
    IN  IF history_index > Len(history)
        THEN [self |-> self, result |-> Err("Process", "Invalid undo index")]
        ELSE [self |->
                [conversation_history |-> SubSeq(history, 1, history_index),
                 conversation_states |->
                    SelectSeq(self.conversation_states,
                              LAMBDA state : Len(state) <= history_index),
                 last_undone_history |-> Some(history)],
              result |-> Ok(<<>>)]

undo_to_index(self, message_index, overflow_checks) ==
    IF MulOverflows(message_index) /\ overflow_checks
    THEN [self |-> self, result |-> Panic("attempt to multiply with overflow")]
    ELSE
    LET history_index == WrappingDouble(message_index)
        history == self.conversation_history
    IN  IF history_index > Len(history)
        THEN [self |-> self, result |-> Err("Process", "Invalid undo index")]
        ELSE [self |->
                [conversation_history |-> SubSeq(history, 1, history_index),
                 conversation_states |->
                    SelectSeq(self.conversation_states,
                              LAMBDA state : Len(state) <= history_index),
                 last_undone_history |->
                    IF history_index < Len(history)
                    THEN Some(history)
                    ELSE self.last_undone_history],
              result |-> Ok(<<>>)]

can_undo(self) == self.conversation_states # <<>>

can_restore(self) ==
    /\ self.last_undone_history # None
    /\ Len(self.last_undone_history[1]) > Len(self.conversation_history)

\* restore_last_undo without the save_state call of line 284.
restore_last_undo_unsaved(self) ==
    IF ~can_restore(self)
    THEN [self |-> self, result |-> Err("Process", "Nothing to restore")]
    ELSE
    LET last_undone == self.last_undone_history[1]
        restored_messages ==
            SubSeq(last_undone, Len(self.conversation_history) + 1, Len(last_undone))
    IN  [self |-> [self EXCEPT
                        !.conversation_history = last_undone,
                        !.last_undone_history = None],
         result |-> Ok(restored_messages)]

restore_last_undo(self) ==
    IF ~can_restore(self)
    THEN [self |-> self, result |-> Err("Process", "Nothing to restore")]
    ELSE
    LET last_undone == self.last_undone_history[1]
        restored_messages ==
            SubSeq(last_undone, Len(self.conversation_history) + 1, Len(last_undone))
    IN  [self |-> save_state([self EXCEPT
                                !.conversation_history = last_undone,
                                !.last_undone_history = None]),
         result |-> Ok(restored_messages)]

\* send_message up to the spawn: line 67.
send_message_push(self, message) ==
    [self EXCEPT !.conversation_history = Append(@, UserEntry(message))]

\* The prompt of lines 70-81, built from the log that already holds the new
\* user entry: the text pushed first, the entries pushed each with a '\n'
\* after it, the text pushed before the message, and the message.
NoPrompt == [header |-> "", context |-> <<>>, label |-> "", message |-> 0]

\* full_prompt rendering the new user entry among the earlier ones.
full_prompt_with_latest(self, message) ==
    IF Len(self.conversation_history) > 1
    THEN [header |-> "Previous conversation:\n",
          context |-> [k \in 1 .. Len(self.conversation_history) |->
                        [line |-> self.conversation_history[k], end |-> "\n"]],
          label |-> "\nLatest message: ",
          message |-> message]
    ELSE [header |-> "", context |-> <<>>, label |-> "", message |-> message]

full_prompt(self, message) ==
    IF Len(self.conversation_history) > 1
    THEN [header |-> "Previous conversation:\n",
          context |-> [k \in 1 .. Len(self.conversation_history) - 1 |->
                        [line |-> self.conversation_history[k], end |-> "\n"]],
          label |-> "\nLatest message: ",
          message |-> message]
    ELSE [header |-> "", context |-> <<>>, label |-> "", message |-> message]

\* A text is a sequence of units, characters or longer fragments that no
\* pattern straddles; str::starts_with and str::contains.
starts_with(text, pattern) ==
    /\ Len(text) >= Len(pattern)
    /\ SubSeq(text, 1, Len(pattern)) = pattern
contains(text, pattern) ==
    \E k \in 1 .. Len(text) - Len(pattern) + 1 :
        SubSeq(text, k, k + Len(pattern) - 1) = pattern

\* ClaudeSetup::is_authentication_needed, setup.rs:286-291.
is_authentication_needed(output) ==
    \/ contains(output, <<"Invalid API key">>)
    \/ contains(output, <<"not authenticated">>)
    \/ contains(output, <<"Please log in">>)
    \/ contains(output, <<"claude login">>)

\* What the subprocess round trip can come to, lines 101-124.
Outcomes ==
    {"spawn_failed", "stdin_write_failed", "wait_failed",
     "exit_not_authenticated", "exit_failure", "success"}

\* One subprocess round trip: whether cmd.spawn(), stdin.write_all() and
\* child.wait_with_output() returned Ok, whether the exit status is success,
\* the reply read from stdout with the fragments found in it, and stderr.
Child(spawn, write, wait, success, reply, stdout, stderr) ==
    [spawn |-> spawn, write |-> write, wait |-> wait, success |-> success,
     reply |-> reply, stdout |-> stdout, stderr |-> stderr]

\* No process, or no Output value of it: nothing was read.
Unread(spawn, write, wait) == Child(spawn, write, wait, FALSE, 0, <<>>, <<>>)

\* The subprocess that answers message with the reply of the same number,
\* ending as the outcome says.
ChildOf(outcome, message) ==
    CASE outcome = "spawn_failed" -> Unread(FALSE, FALSE, FALSE)
      [] outcome = "stdin_write_failed" -> Unread(TRUE, FALSE, FALSE)
      [] outcome = "wait_failed" -> Unread(TRUE, TRUE, FALSE)
      [] outcome = "exit_not_authenticated" ->
            Child(TRUE, TRUE, TRUE, FALSE, 0, <<>>, <<"Invalid API key">>)
      [] outcome = "exit_failure" ->
            Child(TRUE, TRUE, TRUE, FALSE, 0, <<>>, <<"error">>)
      [] outcome = "success" ->
            Child(TRUE, TRUE, TRUE, TRUE, message, <<>>, <<>>)

\* What the subprocess may print on stderr and on stdout.
StderrTexts ==
    {<<>>, <<"error">>, <<"Invalid API key">>, <<"Error: ", "not authenticated">>,
     <<"Please log in">>, <<"Run ", "claude login">>}
StdoutTexts == {<<>>, <<"Invalid API key">>, <<"Please log in">>}

\* Every subprocess round trip on message.
Children(message) ==
    {Unread(FALSE, FALSE, FALSE), Unread(TRUE, FALSE, FALSE), Unread(TRUE, TRUE, FALSE)}
    \cup {Child(TRUE, TRUE, TRUE, success, message, stdout, stderr) :
            success \in BOOLEAN, stdout \in StdoutTexts, stderr \in StderrTexts}

\* send_message launching the subprocess a second time after a
\* not-authenticated exit.
send_message_finish_retrying(self, child) ==
    IF ~child.spawn
    THEN [self |-> self, spawns |-> 1,
          result |-> Err("Process", "Failed to spawn Claude")]
    ELSE IF ~child.write
    THEN [self |-> self, spawns |-> 1,
          result |-> Err("Process", "Failed to write to stdin")]
    ELSE IF ~child.wait
    THEN [self |-> self, spawns |-> 1,
          result |-> Err("Process", "Claude command failed")]
    ELSE IF ~child.success
    THEN IF is_authentication_needed(child.stderr)
         THEN [self |-> self, spawns |-> 2,
               result |-> Err("Authentication", "Authentication required")]
         ELSE [self |-> self, spawns |-> 1,
               result |-> ErrWith("Process", "Claude command failed: ", child.stderr)]
    ELSE
    LET pushed == Append(self.conversation_history, ClaudeEntry(child.reply))
    IN  [self |-> [self EXCEPT !.conversation_history =
                    IF Len(pushed) > MaxHistoryEntries
                    THEN DropFirst(pushed, DrainEntries)
                    ELSE pushed],
         spawns |-> 1,
         result |-> Ok(<<child.reply>>)]

\* send_message from the spawn on: lines 101-136.
\* spawns: the calls of cmd.spawn() made, line 101.
send_message_finish(self, child) ==
    IF ~child.spawn
    THEN [self |-> self, spawns |-> 1,
          result |-> Err("Process", "Failed to spawn Claude")]
    ELSE IF ~child.write
    THEN [self |-> self, spawns |-> 1,
          result |-> Err("Process", "Failed to write to stdin")]
    ELSE IF ~child.wait
    THEN [self |-> self, spawns |-> 1,
          result |-> Err("Process", "Claude command failed")]
    ELSE IF ~child.success
    THEN IF is_authentication_needed(child.stderr)
         THEN [self |-> self, spawns |-> 1,
               result |-> Err("Authentication", "Authentication required")]
         ELSE [self |-> self, spawns |-> 1,
               result |-> ErrWith("Process", "Claude command failed: ", child.stderr)]
    ELSE
    LET pushed == Append(self.conversation_history, ClaudeEntry(child.reply))
    IN  [self |-> [self EXCEPT !.conversation_history =
                    IF Len(pushed) > MaxHistoryEntries
                    THEN DropFirst(pushed, DrainEntries)
                    ELSE pushed],
         spawns |-> 1,
         result |-> Ok(<<child.reply>>)]

\* send_message_with_progress up to the spawn: save_state (line 148), then
\* send_message's push (line 182 -> line 67). The spawned progress task is
\* dropped without being awaited and touches no field.
send_message_with_progress_push_saving_late(self, message) ==
    save_state(send_message_push(self, message))
send_message_with_progress_push(self, message) ==
    send_message_push(save_state(self), message)


(***************************************************************************)
(* The state machine of one ClaudeProcess driven through its public API.   *)
(***************************************************************************)
NoCall ==
    [op |-> "none", message |-> 0, full_prompt |-> NoPrompt, spawns |-> 0,
     child |-> Unread(FALSE, FALSE, FALSE), all_succeeded |-> TRUE]

\* A send call entered: its prompt is built and nothing is spawned yet.
\* all_succeeded: no send call before it returned an error.
Entered(op, message, self) ==
    [op |-> op, message |-> message, full_prompt |-> full_prompt(self, message),
     spawns |-> 0, child |-> Unread(FALSE, FALSE, FALSE),
     all_succeeded |-> cur_call.all_succeeded]

\* The send call returned: the prompt is dropped with the call's frame.
Left(done, child) ==
    [cur_call EXCEPT !.full_prompt = NoPrompt,
                     !.spawns = done.spawns,
                     !.child = child,
                     !.all_succeeded = @ /\ done.result.kind = "Ok"]
NoIndex == Usize(0, 0)

\* after: the op of the call that returned before this one.
Returned(op, message, index, result) ==
    [op |-> op, message |-> message, index |-> index, result |-> result,
     after |-> last_call.op]

Commit(self) ==
    /\ conversation_history' = self.conversation_history
    /\ conversation_states' = self.conversation_states
    /\ last_undone_history' = self.last_undone_history

\* ClaudeProcess::new, lines 40-46.
NewProcess ==
    [conversation_history |-> <<>>,
     conversation_states |-> <<>>,
     last_undone_history |-> None]

Requests == 1 .. MaxRequests

\* No subprocess spawned yet, process.rs before line 101.
NoRoundTrip ==
    [pc |-> "new", prompt |-> 0, sent |-> 0, stdin |-> 0, stdin_open |-> FALSE,
     stdout |-> 0, collected |-> 0, child |-> "none", program |-> "none",
     output |-> 0, child_read |-> 0, child_wrote |-> 0, result |-> "none"]

\* Neither strip_ansi_codes nor complete_auth called yet.
NoTextCall == [op |-> "none", text |-> <<>>, pc |-> "new", tried |-> 0, result |-> <<>>]

\* wait_for_auth not called yet.
NoWait ==
    [pc |-> "new", timeout |-> 0, elapsed |-> 0, next_tick |-> 0, polls |-> 0,
     authenticated |-> FALSE, result |-> "none"]

\* ClaudeProcess::new and AppState::new.
Init ==
    /\ conversation_history = NewProcess.conversation_history
    /\ conversation_states = NewProcess.conversation_states
    /\ last_undone_history = NewProcess.last_undone_history
    /\ pc = "idle"
    /\ cur_call = NoCall
    /\ pre = NewProcess
    /\ last_call = [op |-> "new", message |-> 0, index |-> NoIndex,
                    result |-> Ok(<<>>), after |-> "none"]
    /\ sends = 0
    /\ calls = 0
    /\ processes = {}
    /\ lock_holder = 0
    /\ lock_queue = <<>>
    /\ requests = [r \in Requests |-> "new"]
    /\ status = [r \in Requests |-> 0]
    /\ running_at_arrival = [r \in Requests |-> {}]
    /\ arrived = <<>>
    /\ aborted = {}
    /\ request_json = [r \in Requests |-> [model |-> "", messages |-> <<>>, tools |-> None]]
    /\ response_json = [r \in Requests |-> None]
    /\ capture_pc = "idle"
    /\ polls = 0
    /\ stream = <<>>
    /\ written = 0
    /\ consumed = 0
    /\ pty_child = "none"
    /\ reader_blocks = FALSE
    /\ captured = None
    /\ main_pc = "new"
    /\ mode = "server"
    /\ claude_json = None
    /\ auth_json = None
    /\ observed = [check |-> None, flow |-> None]
    /\ pipe = NoRoundTrip
    /\ auth_wait = NoWait
    /\ text_call = NoTextCall

SendOps == {"send_message", "send_message_with_progress"}

\* The user entries of the log that no assistant entry follows.
Dangling(history) ==
    {k \in 1 .. Len(history) :
        /\ history[k].prefix = "User: "
        /\ (k = Len(history) \/ history[k + 1].prefix # "Claude: ")}

\* A send call enters and pushes the user entry; the subprocess is running.
\* uniform: the caller keeps to the send method it used first.
SendCall(op, limit, uniform) ==
    /\ pc = "idle"
    /\ sends < limit
    /\ uniform => cur_call.op \in {"none", op}
    /\ LET message == sends + 1
           pushed == IF op = "send_message"
                     THEN send_message_push(Self, message)
                     ELSE send_message_with_progress_push(Self, message)
       IN  /\ Commit(pushed)
           /\ cur_call' = Entered(op, message, pushed)
    /\ pre' = Self
    /\ pc' = "in_flight"
    /\ sends' = sends + 1
    /\ UNCHANGED <<last_call, calls, serverVars, captureVars, mainVars, ioVars>>

\* The round trip ends one way or another and the send call returns.
SendReturn(child, failures) ==
    /\ pc = "in_flight"
    /\ LET done == send_message_finish(Self, child)
       IN  /\ done.result.kind # "Ok"
                => Cardinality(Dangling(conversation_history)) <= failures
           /\ Commit(done.self)
           /\ last_call' = Returned(cur_call.op, cur_call.message, NoIndex, done.result)
           /\ cur_call' = Left(done, child)
    /\ pc' = "idle"
    /\ UNCHANGED <<pre, sends, calls, serverVars, captureVars, mainVars, ioVars>>

SaveState(limit) ==
    /\ pc = "idle"
    /\ calls < limit
    /\ Commit(save_state(Self))
    /\ pre' = Self
    /\ last_call' = Returned("save_state", 0, NoIndex, Ok(<<>>))
    /\ calls' = calls + 1
    /\ UNCHANGED <<pc, cur_call, sends, serverVars, captureVars, mainVars, ioVars>>

UndoLastExchange(limit) ==
    /\ pc = "idle"
    /\ calls < limit
    /\ LET done == undo_last_exchange(Self)
       IN  /\ Commit(done.self)
           /\ last_call' = Returned("undo_last_exchange", 0, NoIndex, done.result)
    /\ pre' = Self
    /\ calls' = calls + 1
    /\ UNCHANGED <<pc, cur_call, sends, serverVars, captureVars, mainVars, ioVars>>

\* The indexes tried: every exchange count of the log, one beyond it, and
\* those with the top bit of the word set.
IndexInputs ==
    {Usize(hi, lo) : hi \in {0, 1}, lo \in 0 .. (Len(conversation_history) \div 2) + 1}

\* The indexes a chat client sends: back to the start, or back by one exchange.
ClientIndexInputs ==
    {Usize(0, lo) : lo \in {0, (Len(conversation_history) \div 2) - 1} \cap Nat}

\* overflow_checks: the build panics on arithmetic overflow (debug profile)
\* or wraps (release profile); it matters only when the product overflows.
UndoToIndex(limit, inputs) ==
    /\ pc = "idle"
    /\ calls < limit
    /\ \E message_index \in inputs, overflow_checks \in BOOLEAN :
        /\ overflow_checks => MulOverflows(message_index)
        /\ LET done == undo_to_index(Self, message_index, overflow_checks)
           IN  /\ Commit(done.self)
               /\ last_call' = Returned("undo_to_index", 0, message_index, done.result)
    /\ pre' = Self
    /\ calls' = calls + 1
    /\ UNCHANGED <<pc, cur_call, sends, serverVars, captureVars, mainVars, ioVars>>

RestoreLastUndo(limit) ==
    /\ pc = "idle"
    /\ calls < limit
    /\ LET done == restore_last_undo(Self)
       IN  /\ Commit(done.self)
           /\ last_call' = Returned("restore_last_undo", 0, NoIndex, done.result)
    /\ pre' = Self
    /\ calls' = calls + 1
    /\ UNCHANGED <<pc, cur_call, sends, serverVars, captureVars, mainVars, ioVars>>

\* Any caller of the public API.
Next ==
    \/ \E op \in SendOps : SendCall(op, MaxSends, FALSE)
    \/ \E outcome \in Outcomes : SendReturn(ChildOf(outcome, cur_call.message), MaxSends)
    \/ SaveState(MaxCalls)
    \/ UndoLastExchange(MaxCalls)
    \/ UndoToIndex(MaxCalls, IndexInputs)
    \/ RestoreLastUndo(MaxCalls)

Spec == Init /\ [][Next]_vars

\* A chat client that keeps to one send method, over enough exchanges to fill
\* the sliding window and the checkpoint stack.
\* The round trips the chat client meets: a reply, or a failed exit.
WindowOutcomes == {"exit_failure", "success"}

NextWindow ==
    \/ \E op \in SendOps : SendCall(op, WindowSends, TRUE)
    \/ \E outcome \in WindowOutcomes :
            SendReturn(ChildOf(outcome, cur_call.message), WindowFailures)
    \/ SaveState(WindowCalls)
    \/ UndoLastExchange(WindowCalls)
    \/ UndoToIndex(WindowCalls, ClientIndexInputs)
    \/ RestoreLastUndo(WindowCalls)

SpecWindow == Init /\ [][NextWindow]_vars

\* A chat client whose exchanges all succeed and who rewinds the
\* conversation and restores it between them.
NextRedo ==
    \/ SendCall("send_message", RedoSends, TRUE)
    \/ SendReturn(ChildOf("success", cur_call.message), 0)
    \/ UndoToIndex(RedoCalls, ClientIndexInputs)
    \/ RestoreLastUndo(RedoCalls)

SpecRedo == Init /\ [][NextRedo]_vars

\* A caller of send_message alone, over every subprocess round trip.
NextBridge ==
    \/ SendCall("send_message", MaxSends, TRUE)
    \/ \E child \in Children(cur_call.message) : SendReturn(child, MaxSends)

SpecBridge == Init /\ [][NextBridge]_vars

(***************************************************************************)
(* chat_completions, server.rs:194-255: every request takes the write      *)
(* guard of AppState.processes and holds it until the handler returns.     *)
(***************************************************************************)
\* server.rs:199   let process_id = "default"
ProcessId == "default"

\* build_claude_prompt(&request.messages, &request.tools): the prompt of
\* request r, a text of its own.
PromptOf(r) == r

At(r, where) == requests[r] = where

\* The handler is entered and suspends in state.processes.write().await;
\* tokio's RwLock queues its waiters first in, first out.
\* A write lock whose newest waiter is served first.
Arrive_newest_first(r) ==
    /\ At(r, "new")
    /\ requests' = [requests EXCEPT ![r] = "waiting"]
    /\ lock_queue' = <<r>> \o lock_queue
    /\ running_at_arrival' = [running_at_arrival EXCEPT ![r] =
            {q \in Requests : requests[q] \in {"waiting", "locked", "in_flight"}}]
    /\ arrived' = Append(arrived, r)
    /\ UNCHANGED <<processVars, budgetVars, captureVars, mainVars, ioVars, processes, lock_holder, status,
                   aborted, request_json, response_json>>

Arrive(r) ==
    /\ At(r, "new")
    /\ requests' = [requests EXCEPT ![r] = "waiting"]
    /\ lock_queue' = Append(lock_queue, r)
    /\ running_at_arrival' = [running_at_arrival EXCEPT ![r] =
            {q \in Requests : requests[q] \in {"waiting", "locked", "in_flight"}}]
    /\ arrived' = Append(arrived, r)
    /\ UNCHANGED <<processVars, budgetVars, captureVars, mainVars, ioVars, processes, lock_holder, status,
                   aborted, request_json, response_json>>

\* line 200: the write guard is granted to the head of the queue.
Acquire(r) ==
    /\ At(r, "waiting")
    /\ lock_holder = 0
    /\ lock_queue # <<>>
    /\ Head(lock_queue) = r
    /\ lock_holder' = r
    /\ lock_queue' = Tail(lock_queue)
    /\ requests' = [requests EXCEPT ![r] = "locked"]
    /\ UNCHANGED <<processVars, budgetVars, captureVars, mainVars, ioVars,
                 processes, status, running_at_arrival,
                   arrived, aborted, request_json, response_json>>

\* A handler that creates a process for every request, whatever the
\* registry holds under the key.
CreateProcess_replacing(r) ==
    /\ At(r, "locked")
    /\ lock_holder = r
    /\ processes' = processes \cup {ProcessId}
    /\ Commit(NewProcess)
    /\ UNCHANGED <<pc, cur_call, pre, last_call, budgetVars, captureVars, mainVars, ioVars,
                   lock_holder, lock_queue, requests, status, running_at_arrival,
                   arrived, aborted, request_json, response_json>>

\* lines 202-206: no process under the key yet, and ClaudeProcess::new succeeds.
CreateProcess(r) ==
    /\ At(r, "locked")
    /\ lock_holder = r
    /\ ProcessId \notin processes
    /\ processes' = processes \cup {ProcessId}
    /\ Commit(NewProcess)
    /\ UNCHANGED <<pc, cur_call, pre, last_call, budgetVars, captureVars, mainVars, ioVars,
                   lock_holder, lock_queue, requests, status, running_at_arrival,
                   arrived, aborted, request_json, response_json>>

\* ClaudeProcess::new fails and the handler answers 500 without dropping
\* the guard.
CreateProcessFails_keeping_guard(r) ==
    /\ At(r, "locked")
    /\ lock_holder = r
    /\ ProcessId \notin processes
    /\ status' = [status EXCEPT ![r] = 500]
    /\ requests' = [requests EXCEPT ![r] = "done"]
    /\ UNCHANGED <<processVars, budgetVars, captureVars, mainVars, ioVars,
                   processes, lock_holder, lock_queue, running_at_arrival,
                   arrived, aborted, request_json, response_json>>

\* lines 207-210: ClaudeProcess::new fails; 500, and the guard is dropped.
CreateProcessFails(r) ==
    /\ At(r, "locked")
    /\ lock_holder = r
    /\ ProcessId \notin processes
    /\ status' = [status EXCEPT ![r] = 500]
    /\ requests' = [requests EXCEPT ![r] = "done"]
    /\ lock_holder' = 0
    /\ UNCHANGED <<processVars, budgetVars, captureVars, mainVars, ioVars,
                 processes, lock_queue, running_at_arrival,
                   arrived, aborted, request_json, response_json>>

\* lines 214-220: process.send_message(&prompt) is entered and pushes the
\* user entry.
HandlerSendCall(r) ==
    /\ At(r, "locked")
    /\ lock_holder = r
    /\ ProcessId \in processes
    /\ pc = "idle"
    /\ LET pushed == send_message_push(Self, PromptOf(r))
       IN  /\ Commit(pushed)
           /\ cur_call' = Entered("send_message", PromptOf(r), pushed)
    /\ pre' = Self
    /\ pc' = "in_flight"
    /\ requests' = [requests EXCEPT ![r] = "in_flight"]
    /\ UNCHANGED <<last_call, budgetVars, captureVars, mainVars, ioVars,
                 processes, lock_holder, lock_queue, status,
                   running_at_arrival, arrived, aborted, request_json, response_json>>

\* lines 220-254: send_message returns; 500 on Err, else the response is
\* built; the guard is dropped as the handler returns.
HandlerSendReturn(r, outcome) ==
    /\ At(r, "in_flight")
    /\ lock_holder = r
    /\ pc = "in_flight"
    /\ pc' = "idle"
    /\ requests' = [requests EXCEPT ![r] = "done"]
    /\ lock_holder' = 0
    /\ LET child == ChildOf(outcome, cur_call.message)
           done == send_message_finish(Self, child)
       IN  /\ status' = [status EXCEPT ![r] = IF done.result.kind = "Ok" THEN 200 ELSE 500]
           /\ Commit(done.self)
           /\ last_call' = Returned(cur_call.op, cur_call.message, NoIndex, done.result)
           /\ cur_call' = Left(done, child)
    /\ UNCHANGED <<pre, budgetVars, captureVars, mainVars, ioVars,
                 processes, lock_queue, running_at_arrival, arrived,
                   aborted, request_json, response_json>>

\* The caller closes the connection while the handler is suspended in
\* processes.write().await, line 200, the handler's one await: the handler's
\* future is dropped there and its place in the lock's queue with it.
AbortWaiting(r) ==
    /\ At(r, "waiting")
    /\ aborted' = aborted \cup {r}
    /\ requests' = [requests EXCEPT ![r] = "dropped"]
    /\ lock_queue' = SelectSeq(lock_queue, LAMBDA q : q # r)
    /\ UNCHANGED <<processVars, budgetVars, captureVars, mainVars, ioVars, processes, lock_holder, status,
                   running_at_arrival, arrived, request_json, response_json>>

\* The caller closes the connection after the guard was granted: lines
\* 202-254 hold no await, send_message waits for the subprocess on the
\* handler's own thread, and the handler runs on to its return.
AbortRunning(r) ==
    /\ At(r, "locked") \/ At(r, "in_flight")
    /\ r \notin aborted
    /\ aborted' = aborted \cup {r}
    /\ UNCHANGED <<processVars, budgetVars, captureVars, mainVars, ioVars,
                 processes, lock_holder, lock_queue,
                   requests, status, running_at_arrival, arrived, request_json,
                   response_json>>

NextServer ==
    \E r \in Requests :
        \/ Arrive(r)
        \/ Acquire(r)
        \/ CreateProcess(r)
        \/ CreateProcessFails(r)
        \/ HandlerSendCall(r)
        \/ \E outcome \in Outcomes : HandlerSendReturn(r, outcome)

SpecServer == Init /\ [][NextServer]_vars

\* The handler's own code runs on whenever it can: the runtime polls a task
\* whose guard was granted, and lines 202-254 hold no await.
HandlerSteps(r) ==
    Acquire(r) \/ CreateProcess(r) \/ CreateProcessFails(r) \/ HandlerSendCall(r)

\* The subprocess launched for the request exits, one way or another, and
\* send_message returns.
SubprocessExits(r) == \E outcome \in Outcomes : HandlerSendReturn(r, outcome)

\* The server whose handlers are scheduled and whose subprocesses all exit;
\* each of these steps changes where a request stands or the registry.
SpecServerFair ==
    /\ SpecServer
    /\ \A r \in Requests :
            WF_serverVars(HandlerSteps(r)) /\ WF_serverVars(SubprocessExits(r))

\* The server with callers that may close the connection before the answer.
NextCancel ==
    \/ NextServer
    \/ \E r \in Requests : AbortWaiting(r) \/ AbortRunning(r)

SpecCancel == Init /\ [][NextCancel]_vars

(***************************************************************************)
(* capture_setup_token_output, auth.rs:107-166, and the text functions it  *)
(* uses, auth.rs:168-219. A text is a sequence of characters, each a       *)
(* string of its own; "ESC" stands for the character \x1b.                 *)
(***************************************************************************)
Http == <<"h", "t", "t", "p">>
Claude == <<"c", "l", "a", "u", "d", "e">>
Anthropic == <<"a", "n", "t", "h", "r", "o", "p", "i", "c">>

Whitespace == {" ", "\t", "\n", "\r"}
AsciiAlphabetic ==
    {"a", "b", "c", "d", "e", "f", "g", "h", "i", "j", "k", "l", "m",
     "n", "o", "p", "q", "r", "s", "t", "u", "v", "w", "x", "y", "z",
     "A", "B", "C", "D", "E", "F", "G", "H", "I", "J", "K", "L", "M",
     "N", "O", "P", "Q", "R", "S", "T", "U", "V", "W", "X", "Y", "Z"}

\* The first of the indexes found, or 0 when none was.
First(found) ==
    IF found = {} THEN 0 ELSE CHOOSE k \in found : \A j \in found : k <= j

\* str::lines: the pieces between '\n', a '\r' before the '\n' dropped, and
\* no empty piece after a final '\n'.
RECURSIVE lines(_)
lines(text) ==
    IF text = <<>> THEN <<>>
    ELSE LET newline == First({k \in 1 .. Len(text) : text[k] = "\n"})
         IN  IF newline = 0 THEN <<text>>
             ELSE LET line == SubSeq(text, 1, newline - 1)
                  IN  <<IF line # <<>> /\ Last(line) = "\r" THEN Front(line) ELSE line>>
                      \o lines(SubSeq(text, newline + 1, Len(text)))

\* str::trim.
RECURSIVE trim(_)
trim(text) ==
    IF text = <<>> THEN <<>>
    ELSE IF Head(text) \in Whitespace THEN trim(Tail(text))
    ELSE IF Last(text) \in Whitespace THEN trim(Front(text))
    ELSE text

\* str::split_whitespace.
RECURSIVE split_whitespace(_)
split_whitespace(text) ==
    IF text = <<>> THEN <<>>
    ELSE IF Head(text) \in Whitespace THEN split_whitespace(Tail(text))
    ELSE LET space == First({k \in 1 .. Len(text) : text[k] \in Whitespace})
         IN  IF space = 0 THEN <<text>>
             ELSE <<SubSeq(text, 1, space - 1)>>
                  \o split_whitespace(SubSeq(text, space, Len(text)))

\* strip_ansi_codes, auth.rs:188-210: the character after an ESC is consumed
\* whatever it is, and after "ESC [" everything through the next letter.
RECURSIVE strip_ansi_codes(_)
strip_ansi_codes(text) ==
    IF text = <<>> THEN <<>>
    ELSE IF Head(text) # "ESC" THEN <<Head(text)>> \o strip_ansi_codes(Tail(text))
    ELSE IF Len(text) >= 2 /\ text[2] = "["
    THEN LET rest == SubSeq(text, 3, Len(text))
             letter == First({k \in 1 .. Len(rest) : rest[k] \in AsciiAlphabetic})
         IN  IF letter = 0 THEN <<>>
             ELSE strip_ansi_codes(SubSeq(rest, letter + 1, Len(rest)))
    ELSE strip_ansi_codes(SubSeq(text, 3, Len(text)))

\* The test of auth.rs:174 and 180.
LooksLikeUrl(text) ==
    starts_with(text, Http) /\ (contains(text, Claude) \/ contains(text, Anthropic))

\* extract_url_from_line, auth.rs:168-186.
extract_url_from_line(line) ==
    LET clean_line == trim(strip_ansi_codes(line))
        words == split_whitespace(clean_line)
        word == First({k \in 1 .. Len(words) : LooksLikeUrl(words[k])})
    IN  IF LooksLikeUrl(clean_line) THEN Some(clean_line)
        ELSE IF word # 0 THEN Some(words[word])
        ELSE None

\* extract_url_from_text, auth.rs:212-219.
extract_url_from_text(text) ==
    LET found == First({k \in 1 .. Len(lines(text)) :
                            extract_url_from_line(lines(text)[k]) # None})
    IN  IF found = 0 THEN None ELSE extract_url_from_line(lines(text)[found])

\* What the child may print, cut where its writes end.
Streams ==
    {<<>>,
     <<<<"h", "e", "l", "l", "o", "\n">>, <<"b", "y", "e", "\n">>>>,
     <<<<"g", "o", " ", "h", "t", "t", "p", ":", "/", "/", "x", "/", "c", "l", "a", "u", "d", "e", "/", "k", "\n">>>>,
     <<<<"g", "o", " ", "h", "t", "t", "p", ":", "/", "/", "x", "/", "c", "l", "a">>, <<"u", "d", "e", "/", "k", "\n">>>>,
     <<<<"g", "o", " ", "h", "t", "t", "p", ":", "/", "/", "x", "/", "c", "l", "a", "u", "d", "e">>, <<"/", "k", "\n">>>>,
     <<<<"ESC", "[", "1", "m", "h", "t", "t", "p", ":", "/", "/", "a", "n", "t", "h", "r", "o", "p", "i", "c", "/", "k", "ESC", "[", "0", "m", "\n">>>>,
     <<<<"h", "t", "t", "p", ":", "/", "/", "x", "/", "c", "l", "a", "u", "d", "e", "/", "k", " ", "n", "o", "w", "\n">>>>}

RECURSIVE Concat(_)
Concat(chunks) == IF chunks = <<>> THEN <<>> ELSE Head(chunks) \o Concat(Tail(chunks))

\* auth.rs:135, 146: output, everything read so far.
output == Concat(SubSeq(stream, 1, consumed))

\* self.extract_url_from_text(&output), lines 149 and 165, worked out once
\* for every output a capture can hold.
extracted ==
    [chunks \in Streams |->
        [n \in 0 .. Len(chunks) |->
            extract_url_from_text(Concat(SubSeq(chunks, 1, n)))]]
url_in_output == extracted[stream][consumed]

Returns(value) ==
    /\ capture_pc' = "returned"
    /\ captured' = value

\* lines 112-118 and 130: openpty or spawn_command fails; None, and no child.
CaptureFailsToSpawn ==
    /\ capture_pc = "idle"
    /\ Returns(None)
    /\ UNCHANGED <<polls, stream, written, consumed, pty_child, reader_blocks>>
    /\ UNCHANGED <<processVars, budgetVars, serverVars, mainVars, ioVars>>

\* lines 112-131: the pty is opened and the child spawned on its slave side.
CaptureSpawns ==
    /\ capture_pc = "idle"
    /\ capture_pc' = "spawned"
    /\ pty_child' = "running"
    /\ stream' \in Streams
    /\ reader_blocks' \in BOOLEAN
    /\ UNCHANGED <<polls, written, consumed, captured>>
    /\ UNCHANGED <<processVars, budgetVars, serverVars, mainVars, ioVars>>

\* line 134: try_clone_reader fails and the ? returns None.
CaptureFailsToCloneReader ==
    /\ capture_pc = "spawned"
    /\ Returns(None)
    /\ UNCHANGED <<polls, stream, written, consumed, pty_child, reader_blocks>>
    /\ UNCHANGED <<processVars, budgetVars, serverVars, mainVars, ioVars>>

\* lines 134-139: the reader is obtained and the loop is entered.
CaptureClonesReader ==
    /\ capture_pc = "spawned"
    /\ capture_pc' = "loop"
    /\ UNCHANGED <<polls, stream, written, consumed, pty_child, reader_blocks, captured>>
    /\ UNCHANGED <<processVars, budgetVars, serverVars, mainVars, ioVars>>

\* lines 139-140: one more iteration begins with its sleep.
Sleep ==
    /\ capture_pc = "loop"
    /\ polls < PollIterations
    /\ polls' = polls + 1
    /\ capture_pc' = "read"
    /\ UNCHANGED <<stream, written, consumed, pty_child, reader_blocks, captured>>
    /\ UNCHANGED <<processVars, budgetVars, serverVars, mainVars, ioVars>>

\* child.kill(), lines 150 and 162.
Kill == pty_child' = "killed"

\* lines 142-153: the read returns Ok(n), n > 0, with what the pty holds;
\* a URL found in the output so far ends the capture.
ReadData ==
    /\ capture_pc = "read"
    /\ consumed < written
    /\ consumed' = written
    /\ UNCHANGED <<polls, stream, written, reader_blocks>>
    /\ LET url == url_in_output'
       IN  IF url # None
           THEN Kill /\ Returns(url)
           ELSE capture_pc' = "loop" /\ UNCHANGED <<pty_child, captured>>
    /\ UNCHANGED <<processVars, budgetVars, serverVars, mainVars, ioVars>>

\* lines 154-157: the read returns Err: the pty holds nothing and the reader
\* does not wait, or the slave side is closed.
ReadErr ==
    /\ capture_pc = "read"
    /\ consumed = written
    /\ pty_child = "exited" \/ ~reader_blocks
    /\ capture_pc' = "loop"
    /\ UNCHANGED <<polls, stream, written, consumed, pty_child, reader_blocks, captured>>
    /\ UNCHANGED <<processVars, budgetVars, serverVars, mainVars, ioVars>>

\* line 143: the read returns Ok(0), the slave side being closed; break.
ReadEof ==
    /\ capture_pc = "read"
    /\ consumed = written
    /\ pty_child = "exited"
    /\ capture_pc' = "after_loop"
    /\ UNCHANGED <<polls, stream, written, consumed, pty_child, reader_blocks, captured>>
    /\ UNCHANGED <<processVars, budgetVars, serverVars, mainVars, ioVars>>

\* line 139: the range 0..100 is used up.
LoopEnds ==
    /\ capture_pc = "loop"
    /\ polls = PollIterations
    /\ capture_pc' = "after_loop"
    /\ UNCHANGED <<polls, stream, written, consumed, pty_child, reader_blocks, captured>>
    /\ UNCHANGED <<processVars, budgetVars, serverVars, mainVars, ioVars>>

\* lines 161-165: the child is killed and the output searched a last time.
KillAndReturn ==
    /\ capture_pc = "after_loop"
    /\ Kill
    /\ Returns(url_in_output)
    /\ UNCHANGED <<polls, stream, written, consumed, reader_blocks>>
    /\ UNCHANGED <<processVars, budgetVars, serverVars, mainVars, ioVars>>

\* The child writes its next chunk to the pty.
ChildWrites ==
    /\ pty_child = "running"
    /\ written < Len(stream)
    /\ written' = written + 1
    /\ UNCHANGED <<capture_pc, polls, stream, consumed, pty_child, reader_blocks, captured>>
    /\ UNCHANGED <<processVars, budgetVars, serverVars, mainVars, ioVars>>

\* The child exits of its own accord.
ChildExits ==
    /\ pty_child = "running"
    /\ pty_child' = "exited"
    /\ UNCHANGED <<capture_pc, polls, stream, written, consumed, reader_blocks, captured>>
    /\ UNCHANGED <<processVars, budgetVars, serverVars, mainVars, ioVars>>

\* The steps of capture_setup_token_output itself.
CaptureSteps ==
    \/ CaptureFailsToSpawn
    \/ CaptureSpawns
    \/ CaptureFailsToCloneReader
    \/ CaptureClonesReader
    \/ Sleep
    \/ ReadData
    \/ ReadErr
    \/ ReadEof
    \/ LoopEnds
    \/ KillAndReturn

NextCapture ==
    \/ CaptureSteps
    \/ ChildWrites
    \/ ChildExits

SpecCapture == Init /\ [][NextCapture]_vars

\* The thread running the capture keeps running; nothing is asked of the child.
SpecCaptureFair == SpecCapture /\ WF_vars(CaptureSteps)

(***************************************************************************)
(* serde_json, as chat_completions uses it. A JSON value is its type, its  *)
(* members (of an array, with empty keys) and its text (of a string, the   *)
(* characters; of a number or a literal, the way it is written).           *)
(***************************************************************************)
Value(type, items, text) == [type |-> type, items |-> items, text |-> text]
Member(key, value) == [key |-> key, value |-> value]
Null == Value("null", <<>>, <<"n", "u", "l", "l">>)
String(chars) == Value("string", <<>>, chars)
Number(digits) == Value("number", <<>>, digits)
Object(members) == Value("object", members, <<>>)

JsonWhitespace == {" ", "\n", "\t", "\r"}
Digits == {"0", "1", "2", "3", "4", "5", "6", "7", "8", "9"}
Literals == {<<"n", "u", "l", "l">>, <<"t", "r", "u", "e">>, <<"f", "a", "l", "s", "e">>}

\* The parser's answer: a value and the position after it, or a failure.
Parsed(value, next) == [ok |-> TRUE, value |-> value, next |-> next]
Failed == [ok |-> FALSE, value |-> Null, next |-> 0]

\* The first position from i on that holds no whitespace.
SkipWhitespace(text, i) ==
    LET stop == First({k \in i .. Len(text) : text[k] \notin JsonWhitespace})
    IN  IF stop = 0 THEN Len(text) + 1 ELSE stop

\* The characters of a string from position i, after its opening quote, up
\* to the closing quote; \" and \\ stand for the character escaped, and a
\* line break inside a string is an error. The texts drawn hold no other
\* escape.
RECURSIVE parse_str(_, _, _)
parse_str(text, i, chars) ==
    IF i > Len(text) \/ text[i] = "\n" THEN Failed
    ELSE IF text[i] = "\"" THEN Parsed(String(chars), i + 1)
    ELSE IF text[i] = "\\"
    THEN IF i < Len(text) /\ text[i + 1] \in {"\"", "\\"}
         THEN parse_str(text, i + 2, Append(chars, text[i + 1]))
         ELSE Failed
    ELSE parse_str(text, i + 1, Append(chars, text[i]))

\* An integer: an optional '-', then digits, no leading zero before another
\* digit. The texts drawn hold no fraction and no exponent.
parse_number(text, i) ==
    LET start == IF text[i] = "-" THEN i + 1 ELSE i
        stop == First({k \in start .. Len(text) : text[k] \notin Digits})
        next == IF stop = 0 THEN Len(text) + 1 ELSE stop
    IN  IF next = start \/ (text[start] = "0" /\ next > start + 1) THEN Failed
        ELSE Parsed(Number(SubSeq(text, i, next - 1)), next)

parse_literal(text, i) ==
    LET word == First({k \in 1 .. 5 : i + k - 1 <= Len(text)
                                       /\ SubSeq(text, i, i + k - 1) \in Literals})
    IN  IF word = 0 THEN Failed
        ELSE Parsed(Value(IF word = 4 /\ text[i] = "n" THEN "null" ELSE "bool",
                          <<>>, SubSeq(text, i, i + word - 1)),
                    i + word)

\* Map::insert: a key already in the map gets the new value.
Insert(members, member) ==
    IF member.key # <<>> /\ \E k \in 1 .. Len(members) : members[k].key = member.key
    THEN [k \in 1 .. Len(members) |->
            IF members[k].key = member.key THEN member ELSE members[k]]
    ELSE Append(members, member)

\* A value from position i on, and the members of an array or an object from
\* position i on, those before i being given.
RECURSIVE parse_value(_, _)
RECURSIVE parse_items(_, _, _, _)
parse_value(text, i) ==
    LET at == SkipWhitespace(text, i)
    IN  IF at > Len(text) THEN Failed
        ELSE IF text[at] = "{" THEN parse_items(text, at + 1, "object", <<>>)
        ELSE IF text[at] = "[" THEN parse_items(text, at + 1, "array", <<>>)
        ELSE IF text[at] = "\"" THEN parse_str(text, at + 1, <<>>)
        ELSE IF text[at] \in Digits \cup {"-"} THEN parse_number(text, at)
        ELSE parse_literal(text, at)

parse_items(text, i, type, items) ==
    LET closing == IF type = "object" THEN "}" ELSE "]"
        at == SkipWhitespace(text, i)
        key == IF type = "object" /\ at <= Len(text) /\ text[at] = "\""
               THEN parse_str(text, at + 1, <<>>)
               ELSE Failed
        colon == SkipWhitespace(text, key.next)
        value == IF type = "array" THEN parse_value(text, at)
                 ELSE IF key.ok /\ colon <= Len(text) /\ text[colon] = ":"
                 THEN parse_value(text, colon + 1)
                 ELSE Failed
        after == SkipWhitespace(text, value.next)
        member == Member(IF type = "object" THEN key.value.text ELSE <<>>, value.value)
    IN  IF at > Len(text) THEN Failed
        ELSE IF items = <<>> /\ text[at] = closing
        THEN Parsed(Value(type, <<>>, <<>>), at + 1)
        ELSE IF ~value.ok \/ after > Len(text) THEN Failed
        ELSE IF text[after] = closing
        THEN Parsed(Value(type, Insert(items, member), <<>>), after + 1)
        ELSE IF text[after] = ","
        THEN parse_items(text, after + 1, type, Insert(items, member))
        ELSE Failed

\* serde_json::from_str::<Value>: one value, and nothing but whitespace
\* after it.
from_str(text) ==
    LET parsed == parse_value(text, 1)
    IN  IF parsed.ok /\ SkipWhitespace(text, parsed.next) > Len(text)
        THEN parsed
        ELSE Failed

\* Value::get with a string index: the member of an object under the key.
get(value, key) ==
    LET found == First({k \in 1 .. Len(value.items) : value.items[k].key = key})
    IN  IF value.type = "object" /\ found # 0
        THEN Some(value.items[found].value)
        ELSE None

\* The characters of a string as written between quotes.
RECURSIVE escape(_)
escape(chars) ==
    IF chars = <<>> THEN <<>>
    ELSE (CASE Head(chars) = "\"" -> <<"\\", "\"">>
            [] Head(chars) = "\\" -> <<"\\", "\\">>
            [] Head(chars) = "\n" -> <<"\\", "n">>
            [] OTHER -> <<Head(chars)>>)
         \o escape(Tail(chars))
Quoted(chars) == <<"\"">> \o escape(chars) \o <<"\"">>

\* Two spaces for each level of nesting.
RECURSIVE Indent(_)
Indent(depth) == IF depth = 0 THEN <<>> ELSE <<" ", " ">> \o Indent(depth - 1)

\* serde_json::to_string (pretty = FALSE) and to_string_pretty (TRUE) of a
\* value nested depth levels deep, and of the members from the kth on.
RECURSIVE write_value(_, _, _)
RECURSIVE write_items(_, _, _, _)
write_value(value, pretty, depth) ==
    IF value.type = "string" THEN Quoted(value.text)
    ELSE IF value.type \notin {"array", "object"} THEN value.text
    ELSE LET opening == IF value.type = "object" THEN <<"{">> ELSE <<"[">>
             closing == IF value.type = "object" THEN <<"}">> ELSE <<"]">>
         IN  IF value.items = <<>> THEN opening \o closing
             ELSE opening
                  \o write_items(value, pretty, depth + 1, 1)
                  \o (IF pretty THEN <<"\n">> \o Indent(depth) ELSE <<>>)
                  \o closing

write_items(value, pretty, depth, k) ==
    IF k > Len(value.items) THEN <<>>
    ELSE (IF k > 1 THEN <<",">> ELSE <<>>)
         \o (IF pretty THEN <<"\n">> \o Indent(depth) ELSE <<>>)
         \o (IF value.type = "object"
             THEN Quoted(value.items[k].key) \o (IF pretty THEN <<":", " ">> ELSE <<":">>)
             ELSE <<>>)
         \o write_value(value.items[k].value, pretty, depth)
         \o write_items(value, pretty, depth, k + 1)

to_string(value) == write_value(value, FALSE, 0)
to_string_pretty(value) == write_value(value, TRUE, 0)

(***************************************************************************)
(* The translation between chat requests and Claude's texts,               *)
(* server.rs:257-354. A text is a sequence of characters.                  *)
(***************************************************************************)
\* ChatMessage, Tool with its FunctionDefinition, ToolCall with its
\* FunctionCall (server.rs:33-83); tool_call_id is never read.
ChatMessage(role, content, tool_calls) ==
    [role |-> role, content |-> content, tool_calls |-> tool_calls, tool_call_id |-> None]
Tool(name, description, parameters) ==
    [tool_type |-> "function",
     function |-> [name |-> name, description |-> description, parameters |-> parameters]]
ToolCall(id, name, arguments) ==
    [id |-> id, tool_type |-> "function",
     function |-> [name |-> name, arguments |-> arguments]]

\* The texts build_claude_prompt pushes, lines 263-305; "GRAVE" stands for
\* the grave accent, U+0060.
ToolsHeader ==
    <<"Y", "o", "u", " ", "h", "a", "v", "e", " ", "a", "c", "c", "e", "s", "s", " ", "t", "o", " ", "t", "h", "e", " ", "f", "o", "l", "l", "o", "w", "i", "n", "g", " ", "t", "o", "o", "l", "s", ":", "\n", "\n">>
ToolName == <<"#", "#", " ">>
ToolDescription == <<"D", "e", "s", "c", "r", "i", "p", "t", "i", "o", "n", ":", " ">>
ToolParameters == <<"P", "a", "r", "a", "m", "e", "t", "e", "r", "s", ":", " ">>
ToolsFormat ==
    <<"W", "h", "e", "n", " ", "y", "o", "u", " ", "n", "e", "e", "d", " ", "t", "o", " ", "u", "s", "e", " ", "a", " ", "t", "o", "o", "l", ",", " ", "r", "e", "s", "p", "o", "n", "d", " ", "w", "i", "t", "h", " ", "a", " ", "J", "S", "O", "N", " ", "o", "b", "j", "e", "c", "t", " ", "i", "n", " ", "t", "h", "i", "s", " ", "f", "o", "r", "m", "a", "t", ":", "\n">>
    \o <<"GRAVE", "GRAVE", "GRAVE", "j", "s", "o", "n", "\n", "{", "\"", "t", "o", "o", "l", "_", "c", "a", "l", "l", "s", "\"", ":", " ", "[", "{", "\"", "f", "u", "n", "c", "t", "i", "o", "n", "\"", ":", " ", "{", "\"", "n", "a", "m", "e", "\"", ":", " ", "\"", "f", "u", "n", "c", "t", "i", "o", "n", "_", "n", "a", "m", "e", "\"", ",", " ">>
    \o <<"\"", "a", "r", "g", "u", "m", "e", "n", "t", "s", "\"", ":", " ", "{", "\"", "p", "a", "r", "a", "m", "\"", ":", " ", "\"", "v", "a", "l", "u", "e", "\"", "}", "}", "}", "]", "}", "\n", "GRAVE", "GRAVE", "GRAVE", "\n", "\n">>
SystemLabel == <<"S", "y", "s", "t", "e", "m", ":", " ">>
UserLabel == <<"U", "s", "e", "r", ":", " ">>
AssistantLabel == <<"A", "s", "s", "i", "s", "t", "a", "n", "t", ":", " ">>
ToolCallLabel == <<"T", "o", "o", "l", " ", "C", "a", "l", "l", ":", " ">>
WithArguments == <<" ", "w", "i", "t", "h", " ", "a", "r", "g", "u", "m", "e", "n", "t", "s", ":", " ">>
ToolResultLabel == <<"T", "o", "o", "l", " ", "R", "e", "s", "u", "l", "t", ":", " ">>
BlankLine == <<"\n", "\n">>

\* lines 264-273: the block of one tool.
ToolBlock(tool) ==
    ToolName \o tool.function.name \o <<"\n">>
    \o (IF tool.function.description # None
        THEN ToolDescription \o tool.function.description[1] \o <<"\n">>
        ELSE <<>>)
    \o (IF tool.function.parameters # None
        THEN ToolParameters \o to_string_pretty(tool.function.parameters[1]) \o <<"\n">>
        ELSE <<>>)
    \o <<"\n">>

\* A block of lines 283-305: the label, the content and a blank line.
Block(label, content) ==
    IF content # None THEN label \o content[1] \o BlankLine ELSE <<>>

\* lines 296-301: one block for each tool call of an assistant message.
ToolCallBlocks(tool_calls) ==
    IF tool_calls = None THEN <<>>
    ELSE Concat([k \in 1 .. Len(tool_calls[1]) |->
                    ToolCallLabel \o tool_calls[1][k].function.name
                    \o WithArguments \o tool_calls[1][k].function.arguments
                    \o BlankLine])

\* build_claude_prompt's blocks without the tool calls of assistant messages.
MessageBlock_without_tool_calls(message) ==
    CASE message.role = "system" -> Block(SystemLabel, message.content)
      [] message.role = "user" -> Block(UserLabel, message.content)
      [] message.role = "assistant" -> Block(AssistantLabel, message.content)
      [] message.role = "tool" -> Block(ToolResultLabel, message.content)
      [] OTHER -> <<>>

\* lines 280-310: what one message adds to the prompt.
MessageBlock(message) ==
    CASE message.role = "system" -> Block(SystemLabel, message.content)
      [] message.role = "user" -> Block(UserLabel, message.content)
      [] message.role = "assistant" ->
            Block(AssistantLabel, message.content) \o ToolCallBlocks(message.tool_calls)
      [] message.role = "tool" -> Block(ToolResultLabel, message.content)
      [] OTHER -> <<>>

\* build_claude_prompt, server.rs:257-313.
build_claude_prompt(messages, tools) ==
    (IF tools # None /\ tools[1] # <<>>
     THEN ToolsHeader
          \o Concat([k \in 1 .. Len(tools[1]) |-> ToolBlock(tools[1][k])])
          \o ToolsFormat
     ELSE <<>>)
    \o Concat([k \in 1 .. Len(messages) |-> MessageBlock(messages[k])])

KeyToolCalls == <<"t", "o", "o", "l", "_", "c", "a", "l", "l", "s">>
KeyFunction == <<"f", "u", "n", "c", "t", "i", "o", "n">>
KeyName == <<"n", "a", "m", "e">>
KeyArguments == <<"a", "r", "g", "u", "m", "e", "n", "t", "s">>

\* serde_json::from_value::<Vec<Value>>: the elements of an array.
from_value(value) ==
    IF value.type = "array"
    THEN Some([k \in 1 .. Len(value.items) |-> value.items[k].value])
    ELSE None

\* Value::as_str.
as_str(value) == IF value.type = "string" THEN Some(value.text) ELSE None
unwrap_or(option, default) == IF option = None THEN default ELSE option[1]

\* line 324: the entry has a "function" member and that one a "name" member.
HasFunctionName(call) ==
    /\ get(call, KeyFunction) # None
    /\ get(get(call, KeyFunction)[1], KeyName) # None

\* lines 325-334: the tool call of the kth entry kept; Uuid::new_v4() gives
\* each a value of its own.
Converted(call, k) ==
    LET function == get(call, KeyFunction)[1]
        arguments == get(function, KeyArguments)
    IN  ToolCall([prefix |-> "call_", uuid |-> k],
                 unwrap_or(as_str(get(function, KeyName)[1]), <<>>),
                 IF arguments = None THEN <<>> ELSE to_string(arguments[1]))

\* lines 317-321: the "tool_calls" member of the reply read as JSON, as a
\* list of values; None when the reply is no JSON, has no such member, or
\* the member is no array.
ToolCallsOf(parsed) ==
    LET tool_calls_value == IF parsed.ok THEN get(parsed.value, KeyToolCalls) ELSE None
    IN  IF tool_calls_value = None THEN None ELSE from_value(tool_calls_value[1])

\* lines 322-336 giving the entries without a function name a tool call
\* with an empty name.
ConvertedCalls_keeping_all(tool_calls) ==
    [k \in 1 .. Len(tool_calls) |->
        IF HasFunctionName(tool_calls[k])
        THEN Converted(tool_calls[k], k)
        ELSE ToolCall([prefix |-> "call_", uuid |-> k], <<>>, <<>>)]

\* lines 322-336: the entries with a function name, converted in order.
ConvertedCalls(tool_calls) ==
    LET kept == SelectSeq(tool_calls, HasFunctionName)
    IN  [k \in 1 .. Len(kept) |-> Converted(kept[k], k)]

\* lines 316-348, given the list of line 321.
Interpreted(response, tools, tool_calls) ==
    LET converted_calls ==
            IF tool_calls = None THEN <<>> ELSE ConvertedCalls(tool_calls[1])
    IN  IF tools # None /\ tool_calls # None /\ converted_calls # <<>>
        THEN [content |-> <<>>, tool_calls |-> Some(converted_calls)]
        ELSE [content |-> response, tool_calls |-> None]

\* parse_claude_response, server.rs:315-349.
parse_claude_response(response, tools) ==
    Interpreted(response, tools, ToolCallsOf(from_str(response)))

\* str::len: the bytes of the text's UTF-8 encoding; the characters of the
\* texts drawn are ASCII but for these, of two bytes each.
TwoByteChars == {"é", "ñ"}
len(text) ==
    Len(text) + Cardinality({k \in 1 .. Len(text) : text[k] \in TwoByteChars})

\* estimate_tokens counting characters instead of bytes.
estimate_tokens_by_chars(text) ==
    IF Len(text) \div 4 > 1 THEN Len(text) \div 4 ELSE 1

\* estimate_tokens, server.rs:351-354. The cast to u32 keeps a quotient
\* below 2^32, which that of every text drawn is.
estimate_tokens(text) ==
    IF len(text) \div 4 > 1 THEN len(text) \div 4 ELSE 1

\* lines 247-251; the sum of the two estimates of texts drawn is below 2^32
\* and is a u32 as it stands.
Usage(prompt, response_text) ==
    [prompt_tokens |-> estimate_tokens(prompt),
     completion_tokens |-> estimate_tokens(response_text),
     total_tokens |-> estimate_tokens(prompt) + estimate_tokens(response_text)]

\* line 241: content, absent when empty.
Content_always_present(content) == Some(content)

Content(content) == IF content = <<>> THEN None ELSE Some(content)

\* lines 229-252: the response built from the reply; id carries a UUID of
\* its own and created the clock's reading, neither read again.
AssistantMessage(parsed) ==
    ChatMessage("assistant", Content(parsed.content), parsed.tool_calls)
ChatCompletionResponse(r, model, prompt, response_text, tools) ==
    [id |-> [prefix |-> "chatcmpl-", uuid |-> r],
     object |-> "chat.completion",
     model |-> model,
     choices |-> <<[index |-> 0,
                    message |-> AssistantMessage(parse_claude_response(response_text, tools)),
                    finish_reason |-> "stop"]>>,
     usage |-> Usage(prompt, response_text)]

(***************************************************************************)
(* chat_completions with its request and its response, server.rs:194-255.  *)
(***************************************************************************)
\* ChatCompletionRequest, server.rs:18-31: the fields the handler reads.
ChatCompletionRequest(model, messages, tools) ==
    [model |-> model, messages |-> messages, tools |-> tools]
NoRequest == ChatCompletionRequest("", <<>>, None)

Hi == <<"h", "i">>
Hello == <<"h", "e", "l", "l", "o">>
F == <<"f">>
G == <<"g">>
CallId(k) == [prefix |-> "call_", uuid |-> k]
ArgumentsX == <<"{", "\"", "x", "\"", ":", "1", "}">>

\* The request bodies drawn: one user message; a conversation with a system
\* message and a two-byte character; an assistant message that is a tool
\* call, its result, and a role the handler does not know; an assistant
\* message with content and two tool calls; a message without content; an
\* empty tool list; two tools, one described and with parameters.
Bodies ==
    {ChatCompletionRequest("m", <<ChatMessage("user", Some(Hi), None)>>, None),
     ChatCompletionRequest("m",
        <<ChatMessage("system", Some(<<"b", "e", " ", "b", "r", "i", "e", "f", ".">>), None),
          ChatMessage("user", Some(Hi), None),
          ChatMessage("assistant", Some(Hello), None),
          ChatMessage("user", Some(<<"c", "a", "f", "é">>), None)>>,
        None),
     ChatCompletionRequest("m",
        <<ChatMessage("user", Some(Hi), None),
          ChatMessage("assistant", None, Some(<<ToolCall(CallId(1), F, ArgumentsX)>>)),
          ChatMessage("tool", Some(<<"4", "2">>), None),
          ChatMessage("developer", Some(<<"x">>), None)>>,
        None),
     ChatCompletionRequest("m",
        <<ChatMessage("assistant", Some(<<"o", "k">>),
                      Some(<<ToolCall(CallId(1), F, ArgumentsX),
                             ToolCall(CallId(2), G, <<"{", "}">>)>>))>>,
        None),
     ChatCompletionRequest("m", <<ChatMessage("user", None, None)>>, None),
     ChatCompletionRequest("m", <<ChatMessage("user", Some(Hi), None)>>, Some(<<>>)),
     ChatCompletionRequest("m",
        <<ChatMessage("user", Some(Hi), None)>>,
        Some(<<Tool(F, Some(<<"a", "d", "d", "s">>),
                    Some(Object(<<Member(<<"x">>, Number(<<"1">>))>>))),
               Tool(G, None, None)>>))}

\* The replies drawn: nothing; plain text; one tool call (the example of the
\* interface); three entries, the second without a function; an empty
\* tool_calls array; an entry whose function has no name; a JSON array; a
\* tool call followed by prose; tool_calls that is an object; a name that is
\* a number; a function that is a string; a tool call in a fenced block; a
\* tool call between whitespace.
ReplyNothing == <<>>
ReplyOneCall == <<"{", "\"", "t", "o", "o", "l", "_", "c", "a", "l", "l", "s", "\"", ":", "[", "{", "\"", "f", "u", "n", "c", "t", "i", "o", "n", "\"", ":", "{", "\"", "n", "a", "m", "e", "\"", ":", "\"", "f", "\"", ",", "\"", "a", "r", "g", "u", "m", "e", "n", "t", "s", "\"", ":", "{", "\"", "x", "\"", ":", "1", "}", "}", "}", "]", "}">>
ReplyThreeEntries ==
    <<"{", "\"", "t", "o", "o", "l", "_", "c", "a", "l", "l", "s", "\"", ":", "[", "{", "\"", "f", "u", "n", "c", "t", "i", "o", "n", "\"", ":", "{", "\"", "n", "a", "m", "e", "\"", ":", "\"", "f", "\"", "}", "}", ",", "{", "\"", "i", "d", "\"", ":", "1", "}", ",">>
    \o <<"{", "\"", "f", "u", "n", "c", "t", "i", "o", "n", "\"", ":", "{", "\"", "n", "a", "m", "e", "\"", ":", "\"", "g", "\"", ",", "\"", "a", "r", "g", "u", "m", "e", "n", "t", "s", "\"", ":", "{", "\"", "x", "\"", ":", " ", "[", "1", ",", " ", "\"", "a", "\"", "]", "}", "}", "}", "]", "}">>
ReplyNoEntries == <<"{", "\"", "t", "o", "o", "l", "_", "c", "a", "l", "l", "s", "\"", ":", "[", "]", "}">>
ReplyNoName == <<"{", "\"", "t", "o", "o", "l", "_", "c", "a", "l", "l", "s", "\"", ":", "[", "{", "\"", "f", "u", "n", "c", "t", "i", "o", "n", "\"", ":", "{", "}", "}", "]", "}">>
ReplyArray == <<"[", "1", "]">>
ReplyCallThenProse == ReplyOneCall \o <<" ", "o", "k">>
ReplyCallsObject == <<"{", "\"", "t", "o", "o", "l", "_", "c", "a", "l", "l", "s", "\"", ":", "{", "\"", "f", "u", "n", "c", "t", "i", "o", "n", "\"", ":", "{", "\"", "n", "a", "m", "e", "\"", ":", "\"", "f", "\"", "}", "}", "}">>
ReplyNumberName == <<"{", "\"", "t", "o", "o", "l", "_", "c", "a", "l", "l", "s", "\"", ":", "[", "{", "\"", "f", "u", "n", "c", "t", "i", "o", "n", "\"", ":", "{", "\"", "n", "a", "m", "e", "\"", ":", "1", "}", "}", "]", "}">>
ReplyStringFunction == <<"{", "\"", "t", "o", "o", "l", "_", "c", "a", "l", "l", "s", "\"", ":", "[", "{", "\"", "f", "u", "n", "c", "t", "i", "o", "n", "\"", ":", "\"", "f", "\"", "}", "]", "}">>
ReplyFenced == <<"GRAVE", "GRAVE", "GRAVE", "j", "s", "o", "n", "\n">> \o ReplyOneCall \o <<"\n", "GRAVE", "GRAVE", "GRAVE">>
ReplySpaced == <<" ", "\n">> \o ReplyOneCall \o <<"\n">>
Replies ==
    {ReplyNothing, Hello, ReplyOneCall, ReplyThreeEntries, ReplyNoEntries, ReplyNoName,
     ReplyArray, ReplyCallThenProse, ReplyCallsObject, ReplyNumberName,
     ReplyStringFunction, ReplyFenced, ReplySpaced}

\* The subprocess round trips of a chat request: the failures, and an exit
\* with success after printing a reply.
ChatChildren ==
    {ChildOf(outcome, 0) : outcome \in Outcomes \ {"success"}}
    \cup {Child(TRUE, TRUE, TRUE, TRUE, reply, <<>>, <<>>) : reply \in Replies}

\* lines 214-220: the prompt is built from the request and send_message is
\* entered with it.
ChatSendCall(r, json) ==
    /\ At(r, "locked")
    /\ lock_holder = r
    /\ ProcessId \in processes
    /\ pc = "idle"
    /\ request_json' = [request_json EXCEPT ![r] = json]
    /\ LET prompt == build_claude_prompt(json.messages, json.tools)
           pushed == send_message_push(Self, prompt)
       IN  /\ Commit(pushed)
           /\ cur_call' = Entered("send_message", prompt, pushed)
    /\ pre' = Self
    /\ pc' = "in_flight"
    /\ requests' = [requests EXCEPT ![r] = "in_flight"]
    /\ UNCHANGED <<last_call, budgetVars, captureVars, mainVars, ioVars,
                 processes, lock_holder, lock_queue, status,
                   running_at_arrival, arrived, aborted, response_json>>

\* lines 220-254: send_message returns; 500 on Err, else the reply is
\* interpreted and the response built; the guard is dropped as the handler
\* returns.
ChatSendReturn(r, child) ==
    /\ At(r, "in_flight")
    /\ lock_holder = r
    /\ pc = "in_flight"
    /\ LET done == send_message_finish(Self, child)
       IN  /\ Commit(done.self)
           /\ last_call' = Returned(cur_call.op, cur_call.message, NoIndex, done.result)
           /\ status' = [status EXCEPT ![r] = IF done.result.kind = "Ok" THEN 200 ELSE 500]
           /\ response_json' = [response_json EXCEPT ![r] =
                IF done.result.kind = "Ok"
                THEN Some(ChatCompletionResponse(r, request_json[r].model, cur_call.message,
                                                 done.result.value[1], request_json[r].tools))
                ELSE None]
           /\ cur_call' = Left(done, child)
    /\ pc' = "idle"
    /\ requests' = [requests EXCEPT ![r] = "done"]
    /\ lock_holder' = 0
    /\ UNCHANGED <<pre, budgetVars, captureVars, mainVars, ioVars,
                 processes, lock_queue, running_at_arrival, arrived,
                   aborted, request_json>>

\* The server answering requests whose bodies and replies are texts.
NextChat ==
    \E r \in 1 .. HandledRequests :
        \/ Arrive(r)
        \/ Acquire(r)
        \/ CreateProcess(r)
        \/ CreateProcessFails(r)
        \/ \E json \in Bodies : ChatSendCall(r, json)
        \/ \E child \in ChatChildren : ChatSendReturn(r, child)

SpecChat == Init /\ [][NextChat]_vars

(***************************************************************************)
(* Start-up, main.rs:105-176, and the authentication files of the isolated *)
(* home, setup.rs and auth.rs.  A file is absent (None) or holds a text.   *)
(***************************************************************************)
Home(claude, auth) == [claude_json |-> claude, auth_json |-> auth]

\* The home as setup() leaves it: neither .claude.json nor auth.json exists.
FreshHome == Home(None, None)

OauthAccount == <<"o", "a", "u", "t", "h", "A", "c", "c", "o", "u", "n", "t">>

\* ClaudeSetup::check_authentication, setup.rs:181-193.
check_authentication_any_file(home) ==
    Ok(\E file \in {home.claude_json, home.auth_json} :
           file # None /\ contains(file[1], OauthAccount))
check_authentication(home) ==
    Ok(home.claude_json # None /\ contains(home.claude_json[1], OauthAccount))

\* auth_formats, auth.rs:30-39.
AuthFormats(clean_token) ==
    <<<<"{", "\"", "s", "e", "s", "s", "i", "o", "n", "K", "e", "y", "\"", ":", "\"">>
      \o clean_token \o <<"\"", "}">>,
      <<"{", "\"", "o", "a", "u", "t", "h", "A", "c", "c", "o", "u", "n", "t", "\"",
        ":", "{", "\"", "s", "e", "s", "s", "i", "o", "n", "K", "e", "y", "\"", ":",
        "\"">>
      \o clean_token \o <<"\"", "}", "}">>,
      <<"{", "\"", "k", "e", "y", "\"", ":", "\"">> \o clean_token \o <<"\"", "}">>,
      <<"{", "\"", "t", "o", "k", "e", "n", "\"", ":", "\"">> \o clean_token
      \o <<"\"", ",", "\"", "t", "y", "p", "e", "\"", ":", "\"", "s", "e", "s", "s",
           "i", "o", "n", "\"", "}">>>>

\* ClaudeSetup::set_auth_token, setup.rs:314-329.
set_auth_token(home, auth_token) ==
    IF auth_token = <<>>
    THEN [home |-> home, result |-> Err("Authentication", "Auth token cannot be empty")]
    ELSE LET auth_data == <<"{", "\"", "k", "e", "y", "\"", ":", "\"">> \o auth_token
                          \o <<"\"", "}">>
         IN  [home |-> [home EXCEPT !.auth_json = Some(auth_data)], result |-> Ok(<<>>)]

\* session_token.split('#').next().unwrap_or(session_token).trim(), auth.rs:19.
CleanToken(session_token) ==
    LET hash == First({k \in 1 .. Len(session_token) : session_token[k] = "#"})
    IN  trim(IF hash = 0 THEN session_token ELSE SubSeq(session_token, 1, hash - 1))

\* The loop of complete_auth, auth.rs:42-56: each format is written to
\* auth.json and to .claude.json, and the first that check_authentication
\* accepts ends the loop.
RECURSIVE TryFormats(_, _)
TryFormats(home, auth_formats) ==
    IF auth_formats = <<>>
    THEN [home |-> home,
          result |-> Err("Authentication", "Authentication failed with token")]
    ELSE LET auth_data == Head(auth_formats)
             tried == Home(Some(auth_data), Some(auth_data))
         IN  IF check_authentication(tried).value
             THEN [home |-> tried, result |-> Ok(<<>>)]
             ELSE TryFormats(tried, Tail(auth_formats))

\* A complete_auth that rejects the empty token alone.
Rejected_uncleaned(session_token) ==
    IF session_token = <<>> THEN Some("Session token cannot be empty") ELSE None

\* auth.rs:14-23: the message of the error an empty token, or a token that
\* is empty after cleaning, is answered with; None for any other token.
Rejected(session_token) ==
    IF session_token = <<>> THEN Some("Session token cannot be empty")
    ELSE IF CleanToken(session_token) = <<>> THEN Some("Token is empty after cleaning")
    ELSE None

\* ClaudeSetup::complete_auth, auth.rs:13-62, with nobody else writing the
\* files while it runs.
complete_auth(home, session_token) ==
    IF Rejected(session_token) # None
    THEN [home |-> home, result |-> Err("Authentication", Rejected(session_token)[1])]
    ELSE TryFormats(home, AuthFormats(CleanToken(session_token)))

\* prompt_user, auth.rs:254-263: the line read from stdin, trimmed.
prompt_user(line) == trim(line)

\* ClaudeSetup::complete_oauth_flow, auth.rs:79-105, from the line the user
\* types at the prompt.
complete_oauth_flow(home, line) ==
    LET code == prompt_user(line)
    IN  IF trim(code) # <<>>
        THEN complete_auth(home, trim(code))
        ELSE [home |-> home,
              result |-> Err("Authentication", "No authentication code provided")]

\* What main runs: --message, --status, or neither (the server).
Modes == {"message", "status", "server"}

\* The lines typed at the authentication prompt.
Lines ==
    {<<>>, <<" ", "\n">>, <<"c", "\n">>, <<" ", "c", "#", "s", "\n">>, <<"#", "c", "\n">>,
     OauthAccount \o <<"\n">>}

\* The tokens set_auth_token is called with.
Tokens == {<<>>, <<"t">>, OauthAccount}

\* What the Claude CLI, or a test, leaves in .claude.json.
ClaudeJsonTexts ==
    {<<>>,
     <<"{", "\"", "t", "h", "e", "m", "e", "\"", ":", "\"", "d", "a", "r", "k",
       "\"", "}">>,
     <<"{", "\"", "o", "a", "u", "t", "h", "A", "c", "c", "o", "u", "n", "t", "\"",
       ":", " ", "{", "\"", "i", "d", "\"", ":", " ", "\"", "t", "e", "s", "t",
       "\"", "}", "}">>}

\* main.rs:114, 126, 155: if !claude_setup.check_authentication()? { ... }
AfterCheck_skipping_flow(authenticated) == "ready"
AfterCheck(authenticated) == IF authenticated THEN "ready" ELSE "flow"

\* The ? of main.rs:115 and 157 and the match of main.rs:135-144: an Err of
\* the flow ends the program.
AfterFlow(result) == IF result.kind = "Ok" THEN "ready" ELSE "stopped"

HomeNow == Home(claude_json, auth_json)

\* main is entered with its arguments parsed and the Claude CLI installed.
Launch(m) ==
    /\ main_pc = "new"
    /\ main_pc' = "check"
    /\ mode' = m
    /\ UNCHANGED <<claude_json, auth_json, observed>>
    /\ UNCHANGED <<processVars, budgetVars, serverVars, captureVars, ioVars>>

MainCheckAuthentication ==
    /\ main_pc = "check"
    /\ LET authenticated == check_authentication(HomeNow).value
       IN  /\ observed' = [observed EXCEPT !.check = Some(authenticated)]
           /\ main_pc' = AfterCheck(authenticated)
    /\ UNCHANGED <<mode, claude_json, auth_json>>
    /\ UNCHANGED <<processVars, budgetVars, serverVars, captureVars, ioVars>>

MainCompleteOauthFlow(line) ==
    /\ main_pc = "flow"
    /\ LET flow == complete_oauth_flow(HomeNow, line)
       IN  /\ claude_json' = flow.home.claude_json
           /\ auth_json' = flow.home.auth_json
           /\ observed' = [observed EXCEPT !.flow = Some(flow.result.kind)]
           /\ main_pc' = AfterFlow(flow.result)
    /\ UNCHANGED mode
    /\ UNCHANGED <<processVars, budgetVars, serverVars, captureVars, ioVars>>

\* main.rs:118-121, 146-150 and 161-175: the exchange of message mode, the
\* return of status mode, start_server.
MainRun ==
    /\ main_pc = "ready"
    /\ main_pc' = CASE mode = "message" -> "exchange"
                    [] mode = "status" -> "exited"
                    [] mode = "server" -> "listening"
    /\ UNCHANGED <<mode, claude_json, auth_json, observed>>
    /\ UNCHANGED <<processVars, budgetVars, serverVars, captureVars, ioVars>>

\* main.rs:120-121: the response is printed and main returns.
MainReturn ==
    /\ main_pc = "exchange"
    /\ main_pc' = "exited"
    /\ UNCHANGED <<mode, claude_json, auth_json, observed>>
    /\ UNCHANGED <<processVars, budgetVars, serverVars, captureVars, ioVars>>

\* A caller of the library sets a token, tests/auth_simulation.rs:102.
SetAuthToken(auth_token) ==
    /\ LET set == set_auth_token(HomeNow, auth_token)
       IN  /\ claude_json' = set.home.claude_json
           /\ auth_json' = set.home.auth_json
    /\ UNCHANGED <<main_pc, mode, observed>>
    /\ UNCHANGED <<processVars, budgetVars, serverVars, captureVars, ioVars>>

\* The Claude CLI, or a test (tests/auth_simulation.rs:115-116), writes
\* .claude.json.
WriteClaudeJson(text) ==
    /\ claude_json' = Some(text)
    /\ UNCHANGED <<main_pc, mode, auth_json, observed>>
    /\ UNCHANGED <<processVars, budgetVars, serverVars, captureVars, ioVars>>

\* The tokens complete_auth is called with.
SessionTokens ==
    {<<>>, <<" ">>, <<"#", "c">>, <<" ", "#">>, <<"c">>, <<" ", "c", "#", "s">>,
     <<"c", " ", "d">>}

\* complete_auth is entered, auth.rs:13-27: a rejected token returns at
\* once, any other goes on to the loop over the formats.
CompleteAuthCall(session_token) ==
    /\ text_call.pc # "write" /\ text_call.pc # "check"
    /\ text_call' =
            IF Rejected(session_token) # None
            THEN [op |-> "complete_auth", text |-> session_token, pc |-> "returned",
                  tried |-> 0, result |-> <<"Authentication", Rejected(session_token)[1]>>]
            ELSE [op |-> "complete_auth", text |-> session_token, pc |-> "write",
                  tried |-> 0, result |-> <<>>]
    /\ UNCHANGED <<mainVars, pipe, auth_wait>>
    /\ UNCHANGED <<processVars, budgetVars, serverVars, captureVars>>

\* auth.rs:44-50: the next format is written to auth.json and .claude.json.
CompleteAuthWrite ==
    /\ text_call.op = "complete_auth" /\ text_call.pc = "write"
    /\ LET auth_data == AuthFormats(CleanToken(text_call.text))[text_call.tried + 1]
       IN  /\ auth_json' = Some(auth_data)
           /\ claude_json' = Some(auth_data)
    /\ text_call' = [text_call EXCEPT !.tried = @ + 1, !.pc = "check"]
    /\ UNCHANGED <<main_pc, mode, observed, pipe, auth_wait>>
    /\ UNCHANGED <<processVars, budgetVars, serverVars, captureVars>>

\* auth.rs:53-61: check_authentication on the files as they are now; Ok when
\* it accepts them, the next format when it does not, the error after the
\* last format.
CompleteAuthCheck ==
    /\ text_call.op = "complete_auth" /\ text_call.pc = "check"
    /\ text_call' =
            IF check_authentication(HomeNow).value
            THEN [text_call EXCEPT !.pc = "returned", !.result = <<"Ok", "">>]
            ELSE IF text_call.tried < Len(AuthFormats(CleanToken(text_call.text)))
            THEN [text_call EXCEPT !.pc = "write"]
            ELSE [text_call EXCEPT !.pc = "returned",
                    !.result = <<"Authentication", "Authentication failed with token">>]
    /\ UNCHANGED <<mainVars, pipe, auth_wait>>
    /\ UNCHANGED <<processVars, budgetVars, serverVars, captureVars>>

NextAuth ==
    \/ \E session_token \in SessionTokens : CompleteAuthCall(session_token)
    \/ CompleteAuthWrite
    \/ CompleteAuthCheck
    \/ \E auth_token \in Tokens : SetAuthToken(auth_token)
    \/ \E text \in ClaudeJsonTexts : WriteClaudeJson(text)

SpecAuth == Init /\ [][NextAuth]_vars

NextMain ==
    \/ \E m \in Modes : Launch(m)
    \/ MainCheckAuthentication
    \/ \E line \in Lines : MainCompleteOauthFlow(line)
    \/ MainRun
    \/ MainReturn
    \/ \E auth_token \in Tokens : SetAuthToken(auth_token)
    \/ \E text \in ClaudeJsonTexts : WriteClaudeJson(text)

SpecMain == Init /\ [][NextMain]_vars

(***************************************************************************)
(* The subprocess round trip of send_message, process.rs:101-111, at the   *)
(* level of its pipes.  The parent writes the prompt into the child's      *)
(* stdin pipe, drops its end, and only then reads the child's output; a    *)
(* pipe buffers PipeCapacity bytes, a write to a full pipe waits.          *)
(***************************************************************************)
\* What the child does with its streams before it exits: read its input to
\* the end and then answer; answer and then read its input to the end;
\* answer without reading.  Each of them exits once its peer lets it.
Programs == {"reads_first", "writes_first", "ignores_input"}

\* read(0) returned 0: the pipe is drained and the parent dropped its end.
ChildSawEof == pipe.stdin = 0 /\ ~pipe.stdin_open

ChildMayRead ==
    \/ pipe.program = "reads_first"
    \/ pipe.program = "writes_first" /\ pipe.child_wrote = pipe.output

ChildMayWrite ==
    \/ pipe.program = "reads_first" /\ ChildSawEof
    \/ pipe.program \in {"writes_first", "ignores_input"}

\* process.rs:101   cmd.spawn() with the three streams piped.
Spawn(prompt, program, answer) ==
    /\ pipe.pc = "new"
    /\ pipe' = [NoRoundTrip EXCEPT !.pc = "writing", !.prompt = prompt,
                                   !.stdin_open = TRUE, !.child = "running",
                                   !.program = program, !.output = answer]
    /\ UNCHANGED <<processVars, budgetVars, serverVars, captureVars, mainVars, auth_wait, text_call>>

\* process.rs:105   stdin.write_all: one more byte enters the pipe while it
\* has room; with the child gone the write fails (EPIPE) and line 106
\* returns the error.
StdinWrite ==
    /\ pipe.pc = "writing"
    /\ pipe.sent < pipe.prompt
    /\ \/ /\ pipe.child = "running"
          /\ pipe.stdin < PipeCapacity
          /\ pipe' = [pipe EXCEPT !.sent = @ + 1, !.stdin = @ + 1]
       \/ /\ pipe.child = "exited"
          /\ pipe' = [pipe EXCEPT !.pc = "returned", !.stdin_open = FALSE,
                                  !.result = "Failed to write to stdin"]
    /\ UNCHANGED <<processVars, budgetVars, serverVars, captureVars, mainVars, auth_wait, text_call>>

\* process.rs:108   the end of the if-let block drops stdin: the child's
\* reads will see the end of its input.
StdinDrop ==
    /\ pipe.pc = "writing"
    /\ pipe.sent = pipe.prompt
    /\ pipe' = [pipe EXCEPT !.pc = "waiting", !.stdin_open = FALSE]
    /\ UNCHANGED <<processVars, budgetVars, serverVars, captureVars, mainVars, auth_wait, text_call>>

\* process.rs:110   child.wait_with_output() reads what the child wrote.
OutputRead ==
    /\ pipe.pc = "waiting"
    /\ pipe.stdout > 0
    /\ pipe' = [pipe EXCEPT !.stdout = @ - 1, !.collected = @ + 1]
    /\ UNCHANGED <<processVars, budgetVars, serverVars, captureVars, mainVars, auth_wait, text_call>>

\* process.rs:110   wait_with_output returns when the output is at its end
\* and the child has exited.
WaitWithOutput ==
    /\ pipe.pc = "waiting"
    /\ pipe.stdout = 0
    /\ pipe.child = "exited"
    /\ pipe' = [pipe EXCEPT !.pc = "returned", !.result = "Ok"]
    /\ UNCHANGED <<processVars, budgetVars, serverVars, captureVars, mainVars, auth_wait, text_call>>

\* The child reads a byte of its input.
ChildRead ==
    /\ pipe.child = "running"
    /\ ChildMayRead
    /\ pipe.stdin > 0
    /\ pipe' = [pipe EXCEPT !.stdin = @ - 1, !.child_read = @ + 1]
    /\ UNCHANGED <<processVars, budgetVars, serverVars, captureVars, mainVars, auth_wait, text_call>>

\* The child writes a byte of its output, when the pipe has room.
ChildWrite ==
    /\ pipe.child = "running"
    /\ ChildMayWrite
    /\ pipe.child_wrote < pipe.output
    /\ pipe.stdout < PipeCapacity
    /\ pipe' = [pipe EXCEPT !.stdout = @ + 1, !.child_wrote = @ + 1]
    /\ UNCHANGED <<processVars, budgetVars, serverVars, captureVars, mainVars, auth_wait, text_call>>

\* The child exits: its output is written and, unless it ignores its input,
\* it has read that to the end.  What its stdin pipe still holds is lost.
ChildExit ==
    /\ pipe.child = "running"
    /\ pipe.child_wrote = pipe.output
    /\ pipe.program = "ignores_input" \/ ChildSawEof
    /\ pipe' = [pipe EXCEPT !.child = "exited", !.stdin = 0]
    /\ UNCHANGED <<processVars, budgetVars, serverVars, captureVars, mainVars, auth_wait, text_call>>

NextPipe ==
    \/ \E prompt \in 0 .. MaxPrompt, program \in Programs, answer \in 0 .. MaxOutput :
            Spawn(prompt, program, answer)
    \/ StdinWrite
    \/ StdinDrop
    \/ OutputRead
    \/ WaitWithOutput
    \/ ChildRead
    \/ ChildWrite
    \/ ChildExit

SpecPipe == Init /\ [][NextPipe]_vars

(***************************************************************************)
(* The text functions of auth.rs:168-219 called on their own.              *)
(***************************************************************************)
\* The characters of the texts: the escape character, the two characters
\* that may follow it in a terminal sequence, a digit and a letter.
TextChars == {"ESC", "[", "(", "1", "m"}
Texts == UNION {[1 .. n -> TextChars] : n \in 0 .. MaxText}

\* Self::strip_ansi_codes(text), as auth.rs:170 calls it; one call in a
\* behaviour.
StripAnsiCodes(text) ==
    /\ text_call.op = "none"
    /\ text_call' = [op |-> "strip_ansi_codes", text |-> text, pc |-> "returned",
                     tried |-> 0, result |-> strip_ansi_codes(text)]
    /\ UNCHANGED <<processVars, budgetVars, serverVars, captureVars, mainVars,
                   pipe, auth_wait>>

NextText == \E text \in Texts : StripAnsiCodes(text)

SpecText == Init /\ [][NextText]_vars

(***************************************************************************)
(* wait_for_auth, auth.rs:221-239, with get_auth_status, setup.rs:195-213. *)
(* Time is in milliseconds and passes in steps of half an interval.        *)
(***************************************************************************)
ClockStepMs == WaitIntervalMs \div 2

\* A file that is no UTF-8 text: fs::read_to_string fails on it.
NotUtf8 == <<"INVALID">>

\* ClaudeSetup::get_auth_status, setup.rs:195-213: whether the call
\* returned Ok, and the bool it returned.
get_auth_status(home) ==
    IF home.claude_json = None THEN [kind |-> "Ok", authenticated |-> FALSE]
    ELSE IF len(home.claude_json[1]) = 0 THEN [kind |-> "Ok", authenticated |-> FALSE]
    ELSE IF home.claude_json[1] = NotUtf8 THEN [kind |-> "Io", authenticated |-> FALSE]
    ELSE IF len(home.claude_json[1]) < 10 \/ ~contains(home.claude_json[1], OauthAccount)
    THEN [kind |-> "Ok", authenticated |-> FALSE]
    ELSE [kind |-> "Ok", authenticated |-> TRUE]

\* A test of the timeout that the deadline itself passes.
TimedOut_at_deadline(elapsed, timeout) == elapsed >= timeout

\* auth.rs:233   if start.elapsed() > timeout
TimedOut(elapsed, timeout) == elapsed > timeout

Timeouts == {k * ClockStepMs : k \in 0 .. MaxTimeoutSteps}

\* auth.rs:222-223: start is taken and the interval created; its first tick
\* is due at once.
WaitForAuthCall(timeout) ==
    /\ auth_wait.pc = "new"
    /\ auth_wait' = [NoWait EXCEPT !.pc = "tick", !.timeout = timeout]
    /\ UNCHANGED <<processVars, budgetVars, serverVars, captureVars, mainVars,
                   pipe, text_call>>

\* The clock moves on: up to the tick the loop waits for, and one step
\* beyond it before the task runs.
TimePasses ==
    /\ auth_wait.pc = "tick"
    /\ auth_wait.elapsed < auth_wait.next_tick + ClockStepMs
    /\ auth_wait' = [auth_wait EXCEPT !.elapsed = @ + ClockStepMs]
    /\ UNCHANGED <<processVars, budgetVars, serverVars, captureVars, mainVars,
                   pipe, text_call>>

\* auth.rs:225-238: the tick is due, get_auth_status is called, and the loop
\* returns or goes round to the next tick, one interval after this one.
WaitPoll ==
    /\ auth_wait.pc = "tick"
    /\ auth_wait.elapsed >= auth_wait.next_tick
    /\ LET auth_status == get_auth_status(HomeNow)
           polled == [auth_wait EXCEPT !.polls = @ + 1,
                                       !.authenticated = auth_status.authenticated]
       IN  auth_wait' =
            IF auth_status.kind # "Ok"
            THEN [polled EXCEPT !.pc = "returned", !.result = auth_status.kind]
            ELSE IF auth_status.authenticated
            THEN [polled EXCEPT !.pc = "returned", !.result = "Ok"]
            ELSE IF TimedOut(auth_wait.elapsed, auth_wait.timeout)
            THEN [polled EXCEPT !.pc = "returned", !.result = "Authentication"]
            ELSE [polled EXCEPT !.next_tick = @ + WaitIntervalMs]
    /\ UNCHANGED <<processVars, budgetVars, serverVars, captureVars, mainVars,
                   pipe, text_call>>

NextWait ==
    \/ \E timeout \in Timeouts : WaitForAuthCall(timeout)
    \/ TimePasses
    \/ WaitPoll
    \/ \E text \in ClaudeJsonTexts \cup {NotUtf8} : WriteClaudeJson(text)

SpecWait == Init /\ [][NextWait]_vars

\* Time passes and the runtime polls the task.
SpecWaitFair == SpecWait /\ WF_vars(TimePasses) /\ WF_vars(WaitPoll)

(***************************************************************************)
(* Properties.                                                             *)
(***************************************************************************)
Idle == pc = "idle"
ReturnedFrom(ops) == Idle /\ last_call.op \in ops
Succeeded == last_call.result.kind = "Ok"

\* The index, read as a number, doubled: not beyond the log / inside it.
ValidIndex(message_index, history) ==
    message_index.hi = 0 /\ message_index.lo * 2 <= Len(history)
CutsLog(message_index, history) ==
    message_index.hi = 0 /\ message_index.lo * 2 < Len(history)

\* The log holds complete exchanges only: each 'User:' entry followed by its
\* 'Claude:' entry.
CompleteExchanges(history) ==
    /\ Len(history) % 2 = 0
    /\ \A k \in 1 .. Len(history) :
        IF k % 2 = 1
        THEN history[k].prefix = "User: "
        ELSE history[k] = ClaudeEntry(history[k - 1].text)

\* C1: when send_message or send_message_with_progress returns an error, the
\* history, the checkpoint stack and the redo buffer are what they were
\* before the call.
C1_FailedSendChangesNothing ==
    (ReturnedFrom(SendOps) /\ ~Succeeded) => Self = pre

\* Two requests ran concurrently: one arrived while the other was inside
\* the handler.
Concurrent(r, q) ==
    r # q /\ (q \in running_at_arrival[r] \/ r \in running_at_arrival[q])

\* C2: of the requests of one session at most one is between appending its
\* user entry and finishing its round trip, and in the log the user entry of
\* a request that ran concurrently with another is followed by that same
\* request's assistant entry, never by another request's user entry.
C2_OneInFlightAndNoInterleaving ==
    /\ Cardinality({r \in Requests : At(r, "in_flight")}) <= 1
    /\ \A r \in Requests, k \in 1 .. Len(conversation_history) - 1 :
        (/\ \E q \in Requests : Concurrent(r, q)
         /\ conversation_history[k] = UserEntry(PromptOf(r)))
        => conversation_history[k + 1] = ClaudeEntry(PromptOf(r))

\* A restore_last_undo call made right after an undo_to_index call returned Ok.
RestoreRightAfterUndoToIndex ==
    /\ ReturnedFrom({"undo_to_index"})
    /\ Succeeded
    /\ last_call'.op = "restore_last_undo"
    /\ calls' = calls + 1

\* What C3 promises of that restore, pre.conversation_history being the log
\* before the truncation.
RestoreGivesBackTheCut ==
    LET log == pre.conversation_history
        i == last_call.index.lo
    IN  /\ last_call'.result.value = SubSeq(log, i * 2 + 1, Len(log))
        /\ conversation_history' = log
        /\ ~can_restore(Self')

\* C3 as stated: for every valid i, the cut-free i = exchange count included,
\* undo_to_index(i) then restore_last_undo() yields the entries from i * 2 on
\* (none when nothing was cut), leaves the log as it was before the
\* truncation, and can_restore() is false afterwards. Stated of sessions
\* whose log and redo buffer hold complete exchanges only.
C3_UndoToIndexThenRestore ==
    [][(RestoreRightAfterUndoToIndex
            /\ ValidIndex(last_call.index, pre.conversation_history)
            /\ CompleteExchanges(pre.conversation_history)
            /\ CompleteExchanges(conversation_history'))
        => RestoreGivesBackTheCut]_vars

\* An undo_to_index call with i * 2 equal to the log length.
UndoToIndexCutsNothing ==
    /\ Idle
    /\ last_call'.op = "undo_to_index"
    /\ calls' = calls + 1
    /\ last_call'.index.hi = 0
    /\ last_call'.index.lo * 2 = Len(conversation_history)

\* C3 amended: the same for every valid i that cuts at least one entry
\* (i * 2 less than the log length), and the restore then succeeds; an
\* undo_to_index that cuts nothing leaves the log and the redo buffer as they
\* were.
C3_CuttingUndoToIndexThenRestore ==
    [][/\ (RestoreRightAfterUndoToIndex
            /\ CutsLog(last_call.index, pre.conversation_history))
          => (RestoreGivesBackTheCut /\ last_call'.result.kind = "Ok")
       /\ UndoToIndexCutsNothing
          => /\ last_call'.result.kind = "Ok"
             /\ conversation_history' = conversation_history
             /\ last_undone_history' = last_undone_history]_vars

C3_Witness ==
    /\ ReturnedFrom({"restore_last_undo"})
    /\ last_call.after = "undo_to_index"
    /\ Succeeded
    /\ pre.conversation_history # <<>>
    /\ Len(last_call.result.value) >= 2
    /\ conversation_history = pre.conversation_history \o last_call.result.value
    /\ ~can_restore(Self)

\* C4: right after save_state, and right after a send that completed an
\* exchange, can_restore() is false and restore_last_undo() fails. Stated of
\* sessions whose log and redo buffer hold complete exchanges only.
C4_PushOrExchangeClearsRedo ==
    (/\ \/ ReturnedFrom({"save_state"})
        \/ ReturnedFrom(SendOps) /\ Succeeded
     /\ CompleteExchanges(conversation_history)
     /\ \A k \in 1 .. Len(last_undone_history) :
            CompleteExchanges(last_undone_history[k]))
    => (~can_restore(Self) /\ restore_last_undo(Self).result.kind # "Ok")

\* C5: at rest the log holds at most 20 entries, and an exchange completing
\* on a log of 20 removes exactly the first two entries and keeps the rest
\* in order.
C5_SlidingWindow ==
    Idle =>
        /\ Len(conversation_history) <= MaxHistoryEntries
        /\ (ReturnedFrom(SendOps) /\ Succeeded
                /\ Len(pre.conversation_history) = MaxHistoryEntries)
            => conversation_history =
                    DropFirst(pre.conversation_history, DrainEntries)
                    \o <<UserEntry(last_call.message), ClaudeEntry(last_call.message)>>

\* C6: with no round trip in flight the log is a sequence of complete
\* exchanges: even length, each 'User:' entry followed by its 'Claude:' entry.
C6_OnlyCompleteExchanges ==
    Idle => CompleteExchanges(conversation_history)

\* C7: with a checkpoint retained, undo_last_exchange sets the log to the
\* newest checkpoint's contents and removes that checkpoint; with none it
\* fails with the nothing-to-undo error and changes nothing.
C7_UndoLastExchange ==
    ReturnedFrom({"undo_last_exchange"}) =>
        IF pre.conversation_states # <<>>
        THEN /\ Succeeded
             /\ conversation_history = Last(pre.conversation_states)
             /\ conversation_states = Front(pre.conversation_states)
             /\ Len(conversation_states) = Len(pre.conversation_states) - 1
        ELSE /\ last_call.result = Err("Process", "No conversation states to undo")
             /\ Self = pre

C7_Witness ==
    /\ ReturnedFrom({"undo_last_exchange"})
    /\ Succeeded
    /\ Len(pre.conversation_states) >= 2
    /\ pre.conversation_states[1] # Last(pre.conversation_states)
    /\ conversation_history # pre.conversation_history

\* C8: undo_last_exchange leaves the redo buffer as it was, whether it
\* succeeds or fails, and no operation but undo_to_index ever puts anything
\* into the redo buffer.
C8_OnlyUndoToIndexFillsRedo ==
    /\ ReturnedFrom({"undo_last_exchange"})
        => last_undone_history = pre.last_undone_history
    /\ (Idle /\ last_call.op # "undo_to_index")
        => last_undone_history \in {pre.last_undone_history, None}
    /\ ~Idle => last_undone_history = pre.last_undone_history

C8_Witness ==
    /\ ReturnedFrom({"undo_last_exchange"})
    /\ Succeeded
    /\ conversation_history # pre.conversation_history
    /\ pre.last_undone_history # None
    /\ last_undone_history = pre.last_undone_history

\* C9: undo_to_index(i) with i * 2 greater than the log length fails with
\* the invalid-index error and changes nothing; otherwise it succeeds and
\* the log becomes its first i * 2 entries.
C9_UndoToIndexChecksIndex ==
    ReturnedFrom({"undo_to_index"}) =>
        IF ValidIndex(last_call.index, pre.conversation_history)
        THEN /\ Succeeded
             /\ conversation_history =
                    SubSeq(pre.conversation_history, 1, last_call.index.lo * 2)
        ELSE /\ last_call.result = Err("Process", "Invalid undo index")
             /\ Self = pre

\* C9 for the indexes whose doubling does not overflow the word.
C9_WithoutOverflow ==
    (ReturnedFrom({"undo_to_index"}) /\ ~MulOverflows(last_call.index))
        => C9_UndoToIndexChecksIndex

\* C10: right after a successful undo_to_index no retained checkpoint is
\* longer than the log, and the checkpoints that were not longer than the new
\* log are all retained, in their order.
C10_CheckpointsPruned ==
    (ReturnedFrom({"undo_to_index"}) /\ Succeeded) =>
        /\ \A k \in 1 .. Len(conversation_states) :
            Len(conversation_states[k]) <= Len(conversation_history)
        /\ conversation_states =
            SelectSeq(pre.conversation_states,
                      LAMBDA state : Len(state) <= Len(conversation_history))

C10_Witness ==
    /\ ReturnedFrom({"undo_to_index"})
    /\ Succeeded
    /\ conversation_states # <<>>
    /\ Len(conversation_states) < Len(pre.conversation_states)
    /\ \E k \in 1 .. Len(conversation_states) :
        Len(conversation_states[k]) = Len(conversation_history)

\* C11: restore_last_undo fails exactly when there is no redo buffer or the
\* redo buffer is not strictly longer than the log, and then changes nothing;
\* otherwise the log becomes the redo buffer, the redo buffer becomes empty,
\* one checkpoint equal to the restored log is pushed, and the entries of the
\* redo buffer beyond the log's prior length are returned.
C11_RestoreLastUndo ==
    ReturnedFrom({"restore_last_undo"}) =>
        IF \/ pre.last_undone_history = None
           \/ Len(pre.last_undone_history[1]) <= Len(pre.conversation_history)
        THEN /\ last_call.result = Err("Process", "Nothing to restore")
             /\ Self = pre
        ELSE LET buffer == pre.last_undone_history[1]
             IN  /\ Succeeded
                 /\ conversation_history = buffer
                 /\ last_undone_history = None
                 /\ conversation_states # <<>>
                 /\ Last(conversation_states) = buffer
                 /\ Front(conversation_states) =
                        IF Len(pre.conversation_states) = MaxStates
                        THEN Tail(pre.conversation_states)
                        ELSE pre.conversation_states
                 /\ last_call.result.value =
                        DropFirst(buffer, Len(pre.conversation_history))

C11_Witness ==
    /\ ReturnedFrom({"restore_last_undo"})
    /\ Succeeded
    /\ pre.conversation_history # <<>>
    /\ pre.conversation_states # <<>>
    /\ Len(conversation_states) = Len(pre.conversation_states) + 1
    /\ last_call.result.value # <<>>
    /\ last_call.result.value # conversation_history

\* A checkpoint has just been pushed: by save_state, by the save_state call
\* that opens send_message_with_progress, or by a successful restore_last_undo.
JustPushed ==
    \/ ReturnedFrom({"save_state"})
    \/ pc = "in_flight" /\ cur_call.op = "send_message_with_progress"
    \/ ReturnedFrom({"restore_last_undo"}) /\ Succeeded

\* C12: the checkpoint stack never holds more than 10 checkpoints, and a
\* push onto a stack of 10 removes the oldest checkpoint and keeps the other
\* ten, the new one last, in their order.
C12_CheckpointStackBounded ==
    /\ Len(conversation_states) <= MaxStates
    /\ (JustPushed /\ Len(pre.conversation_states) = MaxStates)
        => /\ Len(conversation_states) = MaxStates
           /\ Front(conversation_states) = Tail(pre.conversation_states)
           /\ Last(conversation_states) =
                IF last_call.op = "restore_last_undo" /\ Idle
                THEN conversation_history
                ELSE pre.conversation_history

C12_Witness ==
    /\ JustPushed
    /\ Len(pre.conversation_states) = MaxStates
    /\ pre.conversation_states[1] # pre.conversation_states[2]
    /\ Last(conversation_states) # Last(pre.conversation_states)
    /\ conversation_states[1] = pre.conversation_states[2]

\* The exchanges a .. b of a session whose every send succeeded, as log
\* entries, and log entries as the lines of a prompt.
Exchanges(a, b) ==
    [k \in 1 .. 2 * (b - a + 1) |->
        IF k % 2 = 1
        THEN UserEntry(a + (k - 1) \div 2)
        ELSE ClaudeEntry(a + (k - 1) \div 2)]
Rendered(history) ==
    [k \in 1 .. Len(history) |-> [line |-> history[k], end |-> "\n"]]

\* The Nth send call of a session that has seen nothing but successful send
\* calls is in flight.
NthExchangeInFlight ==
    /\ pc = "in_flight"
    /\ calls = 0
    /\ cur_call.all_succeeded
    /\ cur_call.message = sends

\* The prompt that holds the exchanges a .. N-1 and then the new message.
PromptHolds(a) ==
    LET N == cur_call.message
    IN  IF N = 1
        THEN cur_call.full_prompt =
                [header |-> "", context |-> <<>>, label |-> "", message |-> N]
        ELSE /\ cur_call.full_prompt.context = Rendered(Exchanges(a, N - 1))
             /\ cur_call.full_prompt.message = N

\* C13 as stated: after N-1 successful exchanges on a fresh session the
\* prompt of the Nth holds exactly the N-1 prior exchanges, each as its
\* 'User:' line then its 'Claude:' line, oldest first, then the new message;
\* for N = 1 it is the message alone.
C13_PromptHoldsAllPriorExchanges ==
    NthExchangeInFlight => PromptHolds(1)

\* C13 amended: the prompt of the Nth holds exactly the prior exchanges the
\* log still retains, the last min(N-1, 10) of them, oldest first, then the
\* new message; for N = 1 it is the message alone.
C13_PromptHoldsRetainedExchanges ==
    NthExchangeInFlight =>
        LET N == cur_call.message
            kept == MaxHistoryEntries \div 2
        IN  PromptHolds(IF N - 1 > kept THEN N - kept ELSE 1)

C13_Witness ==
    /\ NthExchangeInFlight
    /\ cur_call.message = 12
    /\ Len(cur_call.full_prompt.context) = MaxHistoryEntries
    /\ cur_call.full_prompt.context[1].line = UserEntry(2)
    /\ cur_call.full_prompt.context[MaxHistoryEntries].line = ClaudeEntry(11)

\* The session a request is addressed to by its client: requests 1 and 3
\* belong to one conversation, request 2 to another. ChatCompletionRequest
\* (server.rs:18-31) has no field for it, and the handler serves every
\* request under ProcessId.
AddressedTo(r) == r % 2

\* C14: a request addressed to one session is not excluded by a request
\* addressed to another: while the other is waiting for its subprocess, the
\* request at the head of the queue can be granted the guard and go on.
C14_OtherSessionsNotExcluded ==
    \A r, q \in Requests :
        (/\ AddressedTo(r) # AddressedTo(q)
         /\ At(q, "in_flight")
         /\ At(r, "waiting")
         /\ lock_queue # <<>>
         /\ Head(lock_queue) = r)
        => ENABLED Acquire(r)

\* Request a entered the wait for the guard before request b did.
ArrivedBefore(a, b) ==
    \E i, j \in 1 .. Len(arrived) : i < j /\ arrived[i] = a /\ arrived[j] = b

\* The positions of the log that hold an entry of request r's exchange.
EntriesOf(r) ==
    {k \in 1 .. Len(conversation_history) : conversation_history[k].text = PromptOf(r)}

\* C15: if request A arrived before request B, every entry of A's exchange
\* comes before every entry of B's exchange in the log.
C15_ExchangesInArrivalOrder ==
    \A a, b \in Requests :
        ArrivedBefore(a, b) =>
            \A ka \in EntriesOf(a), kb \in EntriesOf(b) : ka < kb

C15_Witness ==
    \E a, b, c \in Requests :
        /\ a > b
        /\ ArrivedBefore(a, b)
        /\ ArrivedBefore(b, c)
        /\ Concurrent(a, b)
        /\ Concurrent(a, c)
        /\ conversation_history =
                <<UserEntry(PromptOf(a)), ClaudeEntry(PromptOf(a)),
                  UserEntry(PromptOf(b)), ClaudeEntry(PromptOf(b)),
                  UserEntry(PromptOf(c)), ClaudeEntry(PromptOf(c))>>

\* The not-authenticated markers, and a text that holds one of them.
Markers == {"Invalid API key", "not authenticated", "Please log in", "claude login"}
HoldsMarker(text) == \E k \in 1 .. Len(text) : text[k] \in Markers

\* The subprocess ran to its exit and its output was read.
Exited(child) == child.spawn /\ child.write /\ child.wait

\* What C16 promises of a send_message call, the subprocess's output being
\* what it printed on stdout and on stderr, or on stderr alone.
OutcomeFollows(child, result, marked) ==
    /\ ~child.spawn => result.kind = "Process"
    /\ (Exited(child) /\ ~child.success /\ marked)
        => result.kind = "Authentication"
    /\ (Exited(child) /\ ~child.success /\ ~marked)
        => (result.kind = "Process" /\ result.text = child.stderr)
    /\ (Exited(child) /\ child.success)
        => result = Ok(<<child.reply>>)

\* C16: send_message's outcome follows the subprocess result: a spawn failure
\* gives a process error; a non-zero exit with a not-authenticated marker in
\* the output gives an authentication error; any other non-zero exit gives a
\* process error carrying stderr; a zero exit gives Ok with stdout as the reply.
C16_OutcomeFollowsSubprocess ==
    ReturnedFrom({"send_message"}) =>
        OutcomeFollows(cur_call.child, last_call.result,
                       HoldsMarker(cur_call.child.stdout)
                            \/ HoldsMarker(cur_call.child.stderr))

\* C16 with the output read as stderr alone.
C16_OutcomeFollowsStderr ==
    ReturnedFrom({"send_message"}) =>
        OutcomeFollows(cur_call.child, last_call.result,
                       HoldsMarker(cur_call.child.stderr))

\* C17: one send_message call launches the subprocess at most once, whatever
\* the outcome; an authentication failure is returned after the one launch.
C17_AtMostOneLaunch ==
    /\ cur_call.spawns <= 1
    /\ (ReturnedFrom(SendOps) /\ last_call.result.kind = "Authentication")
        => cur_call.spawns = 1

C17_Witness ==
    /\ ReturnedFrom({"send_message"})
    /\ last_call.result.kind = "Authentication"
    /\ Exited(cur_call.child)
    /\ ~cur_call.child.success
    /\ cur_call.child.stderr = <<"Error: ", "not authenticated">>
    /\ cur_call.spawns = 1

\* C18: capture_setup_token_output always returns, after at most 100 poll
\* iterations 100 ms apart, whatever the child does, a child that prints
\* nothing and never exits included.
C18_CaptureAlwaysReturns ==
    /\ [](polls <= PollIterations /\ polls * PollIntervalMs <= 10000)
    /\ <>(capture_pc = "returned")

\* C18 for a reader that never waits: the capture returns unless it stands
\* in a read that waits.
C18_CaptureReturnsUnlessReadWaits ==
    <>(capture_pc = "returned" \/ (capture_pc = "read" /\ reader_blocks))

\* The first token of a text, its escape sequences removed, that begins with
\* "http" and holds a service fragment.
UrlToken(text) ==
    LET words == split_whitespace(strip_ansi_codes(text))
        word == First({k \in 1 .. Len(words) : LooksLikeUrl(words[k])})
    IN  IF word = 0 THEN None ELSE Some(words[word])

\* C19: a capture that returns a URL returns exactly the complete URL token
\* of the child's output, however the output was cut into reads; when the
\* whole output was read within the budget and holds such a token the
\* capture returns it; when the output holds none the capture returns
\* nothing.
C19_CaptureFindsCompleteUrl ==
    (capture_pc = "returned" /\ pty_child # "none") =>
        LET token == UrlToken(Concat(stream))
        IN  /\ captured # None => captured = token
            /\ (token # None /\ consumed = Len(stream)) => captured = token
            /\ token = None => captured = None

\* C20: whenever capture_setup_token_output returns after the child was
\* spawned, child.kill() has been called.
C20_ReturnedMeansKilled ==
    (capture_pc = "returned" /\ pty_child # "none") => pty_child = "killed"
\* An assistant entry stands right after the user entry of the exchange it
\* completes, and an aborted request that is over has left no user entry
\* without its reply.
NoEntryWithoutItsUser(history) ==
    \A k \in 1 .. Len(history) :
        history[k].prefix = "Claude: "
            => (k > 1 /\ history[k - 1] = UserEntry(history[k].text))
Over(r) == At(r, "done") \/ At(r, "dropped")
LeftDangling(r) ==
    \E k \in Dangling(conversation_history) :
        conversation_history[k] = UserEntry(PromptOf(r))

\* C21: aborting a chat-completion request, while it waits for the session
\* or during its round trip, never corrupts the log: an assistant entry is
\* only appended together with a full reply, and an aborted request leaves no
\* user entry without its reply.
C21_AbortNeverCorruptsLog ==
    /\ NoEntryWithoutItsUser(conversation_history)
    /\ \A r \in aborted : Over(r) => ~LeftDangling(r)

\* C21 for the aborted requests that were dropped while waiting or whose
\* round trip gave a reply.
C21_AbortWithoutFailedRoundTrip ==
    /\ NoEntryWithoutItsUser(conversation_history)
    /\ \A r \in aborted : (Over(r) /\ status[r] # 500) => ~LeftDangling(r)
\* The handler returns to request r in this step, and the subprocess of the
\* round trip that ends in it, if one does.
JustAnswered(r) == requests[r] # "done" /\ requests'[r] = "done"
RoundTrip == cur_call'.child
Replied(child) == Exited(child) /\ child.success

\* C22: chat_completions returns HTTP 500 exactly when session creation or
\* the subprocess round trip fails; on success it returns exactly one choice
\* with index 0, role 'assistant' and finish_reason 'stop', whose content is
\* absent exactly when the interpreted content is empty.
C22_StatusAndChoice ==
    [][\A r \in Requests : JustAnswered(r) =>
        LET creation_failed == ProcessId \notin processes'
            round_trip_failed == At(r, "in_flight") /\ ~Replied(RoundTrip)
        IN  IF creation_failed \/ round_trip_failed
            THEN status'[r] = 500 /\ response_json'[r] = None
            ELSE /\ status'[r] = 200
                 /\ response_json'[r] # None
                 /\ LET choices == response_json'[r][1].choices
                        interpreted ==
                            parse_claude_response(RoundTrip.reply, request_json[r].tools)
                    IN  /\ Len(choices) = 1
                        /\ choices[1].index = 0
                        /\ choices[1].message.role = "assistant"
                        /\ choices[1].finish_reason = "stop"
                        /\ choices[1].message.content = None
                            <=> interpreted.content = <<>>
                        /\ choices[1].message.content # None
                            => choices[1].message.content[1] = interpreted.content]_vars

C22_Witness ==
    \E r \in Requests :
        /\ At(r, "done")
        /\ status[r] = 200
        /\ cur_call.child.reply = ReplyNothing
        /\ response_json[r] # None
        /\ response_json[r][1].choices[1].message.content = None
        /\ response_json[r][1].choices[1].message.tool_calls = None
\* What a reader finds in each reply drawn: the function names of the
\* entries of its tool_calls array that have one, in order, when the reply is
\* a JSON object with such an array; a name that is no string reads as the
\* empty name.
NamedEntries(text) ==
    CASE text \in {ReplyOneCall, ReplySpaced} -> <<F>>
      [] text = ReplyThreeEntries -> <<F, G>>
      [] text = ReplyNumberName -> <<<<>>>>
      [] OTHER -> <<>>

\* Tools were requested: the request carries a tools field, which is what
\* line 317 asks of it.
ToolsRequested(tools) == tools # None

NoTools(tools) == tools = None \/ tools[1] = <<>>

\* The block C24 gives a message: for the four roles the label, the content
\* and a blank line when the message has content; nothing otherwise.
ClaimedBlock(message) ==
    IF message.content = None THEN <<>>
    ELSE CASE message.role = "system" -> SystemLabel \o message.content[1] \o BlankLine
           [] message.role = "user" -> UserLabel \o message.content[1] \o BlankLine
           [] message.role = "assistant" -> AssistantLabel \o message.content[1] \o BlankLine
           [] message.role = "tool" -> ToolResultLabel \o message.content[1] \o BlankLine
           [] OTHER -> <<>>

\* The blocks of an assistant message's tool calls: for each, in order,
\* 'Tool Call: ', the function name, ' with arguments: ', the arguments and a
\* blank line.
ClaimedToolCalls(message) ==
    IF message.role # "assistant" \/ message.tool_calls = None THEN <<>>
    ELSE Concat([k \in 1 .. Len(message.tool_calls[1]) |->
                    ToolCallLabel \o message.tool_calls[1][k].function.name
                    \o WithArguments \o message.tool_calls[1][k].function.arguments
                    \o BlankLine])

\* The prompt of the request in flight, built at line 217.
PromptInFlight == cur_call.message
OneUserMessageHi(r) == request_json[r].messages = <<ChatMessage("user", Some(Hi), None)>>
UserHi == <<"U", "s", "e", "r", ":", " ", "h", "i", "\n", "\n">>

\* C24 as stated: with no tools, build_claude_prompt returns the
\* concatenation, in message order, of one block per message that has
\* content ('System: ', 'User: ', 'Assistant: ' or 'Tool Result: ', the content
\* and a blank line), so a single user message 'hi' gives 'User: hi' and two
\* newlines; a message with any other role contributes nothing. (That the
\* same input gives the same output is how build_claude_prompt is defined: it
\* reads nothing but its arguments.)
C24_PromptIsContentBlocks ==
    \A r \in Requests :
        (At(r, "in_flight") /\ NoTools(request_json[r].tools)) =>
            LET messages == request_json[r].messages
            IN  /\ PromptInFlight =
                    Concat([k \in 1 .. Len(messages) |-> ClaimedBlock(messages[k])])
                /\ OneUserMessageHi(r) => PromptInFlight = UserHi

\* C24 amended: the same, and an assistant message adds, after its content
\* block if it has one, one block per tool call it carries: 'Tool Call: ',
\* the function name, ' with arguments: ', the arguments and a blank line.
C24_PromptIsContentAndToolCallBlocks ==
    \A r \in Requests :
        (At(r, "in_flight") /\ NoTools(request_json[r].tools)) =>
            LET messages == request_json[r].messages
            IN  /\ PromptInFlight =
                    Concat([k \in 1 .. Len(messages) |->
                                ClaimedBlock(messages[k]) \o ClaimedToolCalls(messages[k])])
                /\ OneUserMessageHi(r) => PromptInFlight = UserHi

C24_Witness ==
    \E r \in Requests :
        /\ At(r, "in_flight")
        /\ request_json[r].tools = None
        /\ Len(request_json[r].messages) = 1
        /\ request_json[r].messages[1].role = "assistant"
        /\ PromptInFlight =
            <<"A", "s", "s", "i", "s", "t", "a", "n", "t", ":", " ", "o", "k", "\n", "\n">>
            \o <<"T", "o", "o", "l", " ", "C", "a", "l", "l", ":", " ", "f", " ", "w", "i", "t", "h", " ", "a", "r", "g", "u", "m", "e", "n", "t", "s", ":", " ", "{", "\"", "x", "\"", ":", "1", "}", "\n", "\n">>
            \o <<"T", "o", "o", "l", " ", "C", "a", "l", "l", ":", " ", "g", " ", "w", "i", "t", "h", " ", "a", "r", "g", "u", "m", "e", "n", "t", "s", ":", " ", "{", "}", "\n", "\n">>
\* max(1, n / 4) with integer division.
QuarterAtLeastOne(n) == IF n \div 4 >= 1 THEN n \div 4 ELSE 1

\* C25: for every successful response, prompt_tokens = max(1, byte length of
\* the prompt / 4) and completion_tokens = max(1, byte length of the reply /
\* 4) with integer division, and total_tokens is exactly their sum, so each
\* part is at least 1 and the total at least 2.
C25_TokenUsage ==
    [][\A r \in Requests : (JustAnswered(r) /\ status'[r] = 200) =>
        LET usage == response_json'[r][1].usage
        IN  /\ usage.prompt_tokens = QuarterAtLeastOne(len(cur_call.message))
            /\ usage.completion_tokens = QuarterAtLeastOne(len(RoundTrip.reply))
            /\ usage.total_tokens = usage.prompt_tokens + usage.completion_tokens
            /\ usage.prompt_tokens >= 1
            /\ usage.completion_tokens >= 1
            /\ usage.total_tokens >= 2]_vars

\* A prompt of 59 characters, one of them of two bytes, and a reply of 62.
C25_Witness ==
    \E r \in Requests :
        /\ At(r, "done")
        /\ status[r] = 200
        /\ Len(cur_call.message) = 59
        /\ Len(cur_call.child.reply) = 62
        /\ response_json[r][1].usage =
                [prompt_tokens |-> 15, completion_tokens |-> 15, total_tokens |-> 30]

\* main has passed its authentication step: it is about to run, is running
\* or has run what it was asked to.
PastAuthentication == main_pc \in {"ready", "exchange", "listening", "exited"}
FlowFailed == observed.flow # None /\ observed.flow # Some("Ok")

\* C26: in message mode and in server mode (and in status mode) nothing is
\* run, neither the exchange nor the server, unless check_authentication
\* returned true or complete_oauth_flow returned Ok; the flow is entered only
\* after check_authentication returned false and is then the next thing main
\* does; and once the flow has failed the program has stopped, having run
\* nothing.
C26_AuthenticationBeforeRunning ==
    /\ PastAuthentication =>
           observed.check = Some(TRUE) \/ observed.flow = Some("Ok")
    /\ observed.flow # None => observed.check = Some(FALSE)
    /\ observed.check = Some(FALSE) /\ observed.flow = None => main_pc = "flow"
    /\ FlowFailed => main_pc = "stopped"

\* The server listens after a flow that was needed and succeeded.
C26_Witness ==
    /\ mode = "server"
    /\ main_pc = "listening"
    /\ observed = [check |-> Some(FALSE), flow |-> Some("Ok")]

\* The file exists and the twelve characters of "oauthAccount" stand in it,
\* one after the other.
HoldsOauthAccount(file) ==
    /\ file # None
    /\ \E k \in 1 .. Len(file[1]) :
           \A j \in 1 .. Len(OauthAccount) :
               k + j - 1 <= Len(file[1]) /\ file[1][k + j - 1] = OauthAccount[j]
Authenticated == check_authentication(HomeNow)

IsPrefix(history, longer) ==
    /\ Len(history) <= Len(longer)
    /\ SubSeq(longer, 1, Len(history)) = history

\* C28: whenever restore_last_undo has succeeded, the log as it was before
\* the call is a prefix of the log after it, so no entry that was in the log
\* has been removed or replaced.
C28_RestoreOnlyAppends ==
    (ReturnedFrom({"restore_last_undo"}) /\ Succeeded)
    => IsPrefix(pre.conversation_history, conversation_history)

\* undo_last_exchange called right after send_message_with_progress returned.
UndoRightAfterProgressSend ==
    /\ ReturnedFrom({"send_message_with_progress"})
    /\ last_call'.op = "undo_last_exchange"
    /\ calls' = calls + 1

\* C29: an undo_last_exchange right after send_message_with_progress
\* succeeds and leaves the log exactly as it was when the send was called
\* (pre.conversation_history), whether the send returned Ok or an error and
\* whether or not its exchange made the log drop its two oldest entries.
C29_UndoAfterProgressSend ==
    [][UndoRightAfterProgressSend
        => /\ last_call'.result.kind = "Ok"
           /\ conversation_history' = pre.conversation_history]_vars

\* The undo after an exchange that completed on a full log, which the window
\* then cut: the twenty entries of before the call are back.
C29_Witness ==
    /\ ReturnedFrom({"undo_last_exchange"})
    /\ last_call.after = "send_message_with_progress"
    /\ Succeeded
    /\ cur_call.all_succeeded
    /\ Len(conversation_history) = MaxHistoryEntries
    /\ Len(pre.conversation_history) = MaxHistoryEntries
    /\ pre.conversation_history # conversation_history

\* An undo_to_index call that returns Ok.
UndoToIndexSucceeds ==
    /\ Idle
    /\ last_call'.op = "undo_to_index"
    /\ calls' = calls + 1
    /\ last_call'.result.kind = "Ok"

\* C30: a successful undo_to_index that removes at least one entry leaves
\* the whole log of before the call in the redo buffer; one that removes
\* nothing leaves the log and the redo buffer as they were, whatever an
\* earlier undo_to_index had put there.
C30_RedoFilledExactlyWhenCut ==
    [][UndoToIndexSucceeds
        => IF Len(conversation_history') < Len(conversation_history)
           THEN last_undone_history' = Some(conversation_history)
           ELSE /\ conversation_history' = conversation_history
                /\ last_undone_history' = last_undone_history]_vars

\* An undo_to_index that cut nothing, right after one that cut: the redo
\* buffer still holds the log the earlier call saved.
C30_Witness ==
    /\ ReturnedFrom({"undo_to_index"})
    /\ last_call.after = "undo_to_index"
    /\ Succeeded
    /\ conversation_history = pre.conversation_history
    /\ last_undone_history # None
    /\ last_undone_history = pre.last_undone_history
    /\ last_undone_history # Some(conversation_history)

Answered(r) == At(r, "done") /\ status[r] \in {200, 500}

\* C31: with handlers scheduled and every subprocess exiting, each request
\* that has entered the handler is eventually answered, with 200 or 500;
\* and a request that was answered, 500 included, no longer holds the
\* guard, so the requests behind it are served.
C31_EveryRequestAnswered ==
    /\ \A r \in Requests : At(r, "waiting") ~> Answered(r)
    /\ [](\A r \in Requests : At(r, "done") => lock_holder # r)

\* A request answered 200 after one that arrived before it was answered 500.
C31_Witness ==
    \E i, j \in 1 .. Len(arrived) :
        /\ i < j
        /\ Answered(arrived[i]) /\ status[arrived[i]] = 500
        /\ Answered(arrived[j]) /\ status[arrived[j]] = 200

\* write_all waits for room in the stdin pipe that the child will not make.
ParentBlocked ==
    /\ pipe.pc = "writing"
    /\ pipe.sent < pipe.prompt
    /\ pipe.stdin = PipeCapacity
    /\ pipe.child = "running"

\* The child waits for room in the stdout pipe that nobody reads yet.
ChildBlocked ==
    /\ pipe.child = "running"
    /\ ChildMayWrite
    /\ pipe.child_wrote < pipe.output
    /\ pipe.stdout = PipeCapacity
    /\ ~(ChildMayRead /\ pipe.stdin > 0)

\* C32: send_message's write of the whole prompt before it reads any output
\* never leaves the parent waiting on a full stdin pipe while the child
\* waits on a full stdout pipe, whatever the sizes of prompt and output.
C32_NeverBothBlocked == ~(ParentBlocked /\ ChildBlocked)

\* The first token, in line order and then word order, that begins with
\* "http" and holds a service fragment.
FirstUrlToken(text) ==
    LET found == First({k \in 1 .. Len(lines(text)) : UrlToken(lines(text)[k]) # None})
    IN  IF found = 0 THEN None ELSE UrlToken(lines(text)[found])

\* C33: on everything the capture has read so far, extract_url_from_text
\* returns the first whitespace-free token, in line order and then word
\* order of the text without its escape sequences, that begins with "http"
\* and holds "claude" or "anthropic", and nothing when there is no such
\* token.
C33_ExtractsFirstUrlToken ==
    extract_url_from_text(output) = FirstUrlToken(output)

\* A text without its sequences of ESC, "[" and everything through the next
\* ASCII letter (through the end of the text when no letter follows), every
\* other character kept.
RECURSIVE WithoutCsi(_)
WithoutCsi(text) ==
    IF text = <<>> THEN <<>>
    ELSE IF Head(text) = "ESC" /\ Len(text) >= 2 /\ text[2] = "["
    THEN LET letter == First({k \in 3 .. Len(text) : text[k] \in AsciiAlphabetic})
         IN  IF letter = 0 THEN <<>>
             ELSE WithoutCsi(SubSeq(text, letter + 1, Len(text)))
    ELSE <<Head(text)>> \o WithoutCsi(Tail(text))

\* C34: strip_ansi_codes removes the sequences of ESC, "[" and everything
\* through the next ASCII letter, and nothing else: every other character of
\* its input is in its result, in place and in order.
C34_StripsExactlyCsi ==
    text_call.op = "strip_ansi_codes" => text_call.result = WithoutCsi(text_call.text)

\* The handler of r returns in this step.
Answers(r) == ~At(r, "done") /\ requests'[r] = "done"

\* C35: the registry holds nothing or the one session under its key; once
\* created the session is never removed or replaced, so each step only adds
\* to the history the earlier requests left; and a request that finds no
\* session and cannot create one is answered 500 with the registry as
\* empty as before.
C35_OneSessionPerKey ==
    /\ [](processes \subseteq {ProcessId})
    /\ [][/\ processes \subseteq processes'
          /\ ProcessId \in processes =>
                IsPrefix(conversation_history, conversation_history')
          /\ \A r \in Requests :
                (Answers(r) /\ ProcessId \notin processes) =>
                    (status'[r] = 500 /\ processes' = processes)]_vars

\* A failed creation answered 500, and the session the next request created
\* then served two requests, the second exchange after the first.
C35_Witness ==
    \E a, b, c \in Requests :
        /\ status[a] = 500 /\ status[b] = 200 /\ status[c] = 200 /\ b # c
        /\ processes = {ProcessId}
        /\ Len(conversation_history) = 4

\* The request was answered 200 and its tools field is an empty list.
AnsweredWithEmptyTools(r) ==
    At(r, "done") /\ status[r] = 200 /\ request_json[r].tools = Some(<<>>)

\* C36: a request whose tool list is present but empty is handled as one
\* without tools: its prompt is the prompt of the same messages without a
\* tools field, and its reply is not read as tool calls but is the content
\* of the answer as it came.
C36_EmptyToolListIsNoTools ==
    \A r \in Requests : AnsweredWithEmptyTools(r) =>
        /\ cur_call.message = build_claude_prompt(request_json[r].messages, None)
        /\ response_json[r][1].choices[1].message.tool_calls = None
        /\ response_json[r][1].choices[1].message.content =
                IF cur_call.child.reply = <<>> THEN None ELSE Some(cur_call.child.reply)

\* complete_auth returns in this step.
CompleteAuthReturns ==
    text_call.pc # "returned" /\ text_call'.op = "complete_auth" /\ text_call'.pc = "returned"

C38_OutOfRangeIndexRejected ==
    (ReturnedFrom({"undo_to_index"})
        /\ ~ValidIndex(last_call.index, pre.conversation_history)) =>
            /\ last_call.result.kind = "Process"
            /\ last_call.result.detail = "Invalid undo index"
            /\ conversation_history = pre.conversation_history
            /\ conversation_states = pre.conversation_states
            /\ last_undone_history = pre.last_undone_history

\* One poll of wait_for_auth, and its return, in this step.
Polls == auth_wait'.polls = auth_wait.polls + 1
WaitReturns == auth_wait.pc = "tick" /\ auth_wait'.pc = "returned"

\* What C39 says of the steps of wait_for_auth: a return is a poll; the poll
\* that finds the session authenticated returns Ok; any other poll returns
\* the timeout error when the timeout has elapsed and otherwise goes on to a
\* tick one interval later.
PollsAsStated ==
    /\ WaitReturns => Polls
    /\ Polls =>
        IF auth_wait'.authenticated
        THEN WaitReturns /\ auth_wait'.result = "Ok"
        ELSE IF auth_wait.elapsed > auth_wait.timeout
        THEN WaitReturns /\ auth_wait'.result = "Authentication"
        ELSE /\ auth_wait'.pc = "tick"
             /\ auth_wait'.next_tick = auth_wait.next_tick + WaitIntervalMs
             /\ auth_wait.elapsed >= auth_wait.next_tick

\* C39 as stated: wait_for_auth polls at least once whatever the timeout,
\* returns Ok at the first poll that finds the session authenticated and
\* the timeout error at the first other poll after the timeout has elapsed,
\* with a poll every 500 ms until then, and it returns.
C39_AsStated ==
    /\ [][PollsAsStated]_vars
    /\ [](auth_wait.pc = "returned" => auth_wait.polls >= 1)
    /\ (auth_wait.pc = "tick") ~> (auth_wait.pc = "returned")

\* get_auth_status fails on the files as they are.
StatusFails == get_auth_status(HomeNow).kind # "Ok"

\* C39, amended: as stated, but for a poll at which get_auth_status fails:
\* that poll returns the error of get_auth_status, whatever the time.
C39_WaitForAuth ==
    /\ [][IF Polls /\ StatusFails
          THEN WaitReturns /\ auth_wait'.result = "Io"
          ELSE PollsAsStated /\ (WaitReturns => auth_wait'.result # "Io")]_vars
    /\ [](auth_wait.pc = "returned" => auth_wait.polls >= 1)
    /\ [](auth_wait.result = "Ok" => auth_wait.authenticated)
    /\ (auth_wait.pc = "tick") ~> (auth_wait.pc = "returned")

\* A call with a timeout of one interval found no session at its first two
\* polls and returned the timeout error at the second, after the deadline.
C39_Witness ==
    /\ auth_wait.pc = "returned"
    /\ auth_wait.result = "Authentication"
    /\ auth_wait.timeout = WaitIntervalMs
    /\ auth_wait.polls = 2
    /\ auth_wait.elapsed > auth_wait.timeout
====
